---- MODULE Spec2Model ----
(***************************************************************************)
(* ACL orchestrator of the MLX platform family (pyswitch/snmp/mlx/base/    *)
(* acl/acl.py) with the IPv4 field parsers (pyswitch/snmp/base/acl/        *)
(* ipacl.py) and the command executor's failure handling                   *)
(* (pyswitch/device.py, Device._callback_main).                            *)
(*                                                                         *)
(* Text is modelled as a sequence of one-character strings, so that        *)
(* substring tests, prefix slices, splitting and regular-expression        *)
(* stripping are computed the way the Python code computes them.           *)
(***************************************************************************)
EXTENDS Integers, Sequences, FiniteSets, TLC

VARIABLES device, op, params, pc, sent, replies, result, repeat, frame, retval

vars == <<device, op, params, pc, sent, replies, result, repeat, frame, retval>>

----------------------------------------------------------------------------
(* Python string primitives *)

\* t in s
Contains(s, t) ==
    \E i \in 0..(Len(s) - Len(t)) : SubSeq(s, i + 1, i + Len(t)) = t

\* s[0:n]
Slice0(s, n) == SubSeq(s, 1, IF n < Len(s) THEN n ELSE Len(s))

\* s.split(c) for a one-character separator c
RECURSIVE SplitOn(_, _)
SplitOn(s, c) ==
    IF \A i \in 1..Len(s) : s[i] # c
    THEN <<s>>
    ELSE LET i == CHOOSE k \in 1..Len(s) :
                      s[k] = c /\ \A j \in 1..(k - 1) : s[j] # c
         IN  <<SubSeq(s, 1, i - 1)>> \o SplitOn(SubSeq(s, i + 1, Len(s)), c)

\* the whitespace of str.split(): blank, tab, newline, carriage return,
\* form feed and vertical tab
IsSpace(c) == c \in {" ", "\t", "\n", "\r", "\f", ""}

\* s.split(): the maximal runs of non-whitespace characters
RECURSIVE SplitWS(_)
SplitWS(s) ==
    IF s = <<>> THEN <<>>
    ELSE IF IsSpace(s[1]) THEN SplitWS(Tail(s))
    ELSE LET stops == {k \in 1..Len(s) : IsSpace(s[k])}
             e == IF stops = {} THEN Len(s) + 1
                  ELSE CHOOSE k \in stops : \A j \in stops : k <= j
         IN  <<SubSeq(s, 1, e - 1)>> \o SplitWS(SubSeq(s, e, Len(s)))

\* sep.join(parts)
RECURSIVE Join(_, _)
Join(parts, sep) ==
    IF parts = <<>> THEN <<>>
    ELSE IF Len(parts) = 1 THEN parts[1]
    ELSE parts[1] \o sep \o Join(Tail(parts), sep)

\* ' '.join(s.split())
Normalize(s) == Join(SplitWS(s), <<" ">>)

Digits == <<"0","1","2","3","4","5","6","7","8","9">>
Letters == {"a","b","c","d","e","f","g","h","i","j","k","l","m",
            "n","o","p","q","r","s","t","u","v","w","x","y","z",
            "A","B","C","D","E","F","G","H","I","J","K","L","M",
            "N","O","P","Q","R","S","T","U","V","W","X","Y","Z"}
IsDigitChar(c) == \E d \in 1..10 : Digits[d] = c

\* s.isdigit()
IsDigit(s) == s # <<>> /\ \A i \in 1..Len(s) : IsDigitChar(s[i])

DigitVal(c) == (CHOOSE d \in 1..10 : Digits[d] = c) - 1

\* int(s) for a digit string s
RECURSIVE StrToInt(_)
StrToInt(s) ==
    IF s = <<>> THEN 0
    ELSE 10 * StrToInt(SubSeq(s, 1, Len(s) - 1)) + DigitVal(s[Len(s)])

\* str(n) for an integer n
RECURSIVE NatToStr(_)
NatToStr(n) ==
    IF n < 10 THEN <<Digits[n + 1]>>
    ELSE NatToStr(n \div 10) \o <<Digits[(n % 10) + 1]>>
IntToStr(n) == IF n < 0 THEN <<"-">> \o NatToStr(0 - n) ELSE NatToStr(n)

\* re.sub(r'[^a-zA-Z0-9 .-]', r'', s)
RECURSIVE StripDisallowed(_)
StripDisallowed(s) ==
    IF s = <<>> THEN <<>>
    ELSE IF s[1] \in Letters \/ IsDigitChar(s[1]) \/ s[1] \in {" ", ".", "-"}
         THEN <<s[1]>> \o StripDisallowed(Tail(s))
         ELSE StripDisallowed(Tail(s))


----------------------------------------------------------------------------
(* Parameter bags: a function from the keyword names the caller passed to   *)
(* tagged Python values.                                                    *)

NoneV == [t |-> "none", v |-> <<>>]
PyStr(s) == [t |-> "str", v |-> s]
PyInt(n) == [t |-> "int", v |-> n]
PyList(l) == [t |-> "list", v |-> l]

\* Python truthiness of a value
Truthy(x) ==
    CASE x.t = "none" -> FALSE
      [] x.t = "int"  -> x.v # 0
      [] OTHER        -> x.v # <<>>

Has(p, k) == k \in DOMAIN p
\* parameters.get(k, None)
Get(p, k) == IF Has(p, k) THEN p[k] ELSE NoneV
\* 'k' in parameters and parameters['k']
Present(p, k) == Has(p, k) /\ Truthy(p[k])
\* the text a string-valued key holds ('' when it is absent or not a string)
Text(p, k) == IF Has(p, k) /\ p[k].t = "str" THEN p[k].v ELSE <<>>

EmptyBag == [k \in {} |-> NoneV]
Opt(k, vals) == {EmptyBag} \cup {k :> v : v \in vals}
Req(k, vals) == {k :> v : v \in vals}
Cross(B1, B2) == {a @@ b : a \in B1, b \in B2}

----------------------------------------------------------------------------
(* Literals *)

s_mac == <<"m","a","c">>
s_ip == <<"i","p">>
s_ipv6 == <<"i","p","v","6">>
s_l3 == <<"l","3">>
s_standard == <<"s","t","a","n","d","a","r","d">>
s_extended == <<"e","x","t","e","n","d","e","d">>
s_ethernet == <<"e","t","h","e","r","n","e","t">>
s_ve == <<"v","e">>
s_port_channel == <<"p","o","r","t","_","c","h","a","n","n","e","l">>
s_in == <<"i","n">>
s_exit == <<"e","x","i","t">>
SP == <<" ">>
NL == <<"\n">>

\* the ACL names used by callers and devices; A10 contains A1
A1 == <<"A","1">>
A10 == <<"A","1","0">>

----------------------------------------------------------------------------
(* Bounds *)

\* the longest interface list handed to apply_acl / remove_acl
MaxIntfs == 2
\* the largest number of rules in an ACL's rule listing
MaxRules == 2

----------------------------------------------------------------------------
(* The live device: the ACL table and the rule table behind the listings    *)
(* the executor returns for the 'show' commands.                            *)

AclEntry(n, proto, ty) == [name |-> n, protocol |-> proto, type |-> ty]

\* the listing line of one ACL
AclLine(e) ==
    IF e.protocol = s_ip
    THEN e.protocol \o <<" ","a","c","c","e","s","s","-","l","i","s","t"," ">> \o e.type \o SP \o e.name
    ELSE e.protocol \o <<" ","a","c","c","e","s","s","-","l","i","s","t"," ">> \o e.name

IsV6Entry(e) == e.protocol = s_ipv6
IsV4OrMacEntry(e) == e.protocol # s_ipv6

Lines(entries) == Join([i \in 1..Len(entries) |-> AclLine(entries[i])], NL)

\* output of 'show access-list all'
ShowAll(d) == Lines(SelectSeq(d.acls, IsV4OrMacEntry))
\* output of 'show ipv6 access-list'
ShowIpv6(d) == Lines(SelectSeq(d.acls, IsV6Entry))

SeqNo(i) == 10 * i
RuleLine(n) == IntToStr(n) \o <<":"," ","p","e","r","m","i","t"," ","a","n","y"," ","a","n","y">>

\* output of the rule listing command of one ACL: a header and its rules
ShowRules(d, hdr) ==
    Join(<<hdr>> \o [i \in 1..Len(d.rules) |-> RuleLine(d.rules[i])], NL)

NoDevice == [known |-> FALSE, acls |-> <<>>, rules |-> <<>>]

EntriesA1 == {AclEntry(A1, s_mac, <<>>), AclEntry(A1, s_ip, s_standard),
              AclEntry(A1, s_ip, s_extended), AclEntry(A1, s_ipv6, <<>>)}
EntriesA10 == {AclEntry(A10, s_ip, s_extended), AclEntry(A10, s_mac, <<>>)}

AclTables ==
    {<<>>} \cup {<<e>> : e \in EntriesA1 \cup EntriesA10}
           \cup {<<e, f>> : e \in EntriesA1, f \in EntriesA10}
           \cup {<<f, e>> : e \in EntriesA1, f \in EntriesA10}

\* the numbered lines of a rule listing as the executor returns them; the
\* orchestrator does not assume that a number occurs once or in order
RuleTables ==
    UNION {[1..n -> {SeqNo(i) : i \in 1..MaxRules}] : n \in 0..MaxRules}

IsRuleDelete(o) ==
    o \in {"delete_l2_acl_rule", "delete_ipv4_acl_rule", "delete_ipv6_acl_rule"}

\* the devices a call of operation o may meet
Devices(o) ==
    {[known |-> TRUE, acls |-> a, rules |-> r] :
        a \in AclTables,
        r \in IF IsRuleDelete(o) THEN RuleTables ELSE {<<>>}}

----------------------------------------------------------------------------
(* Command templates (acl_template) *)

create_acl_template(acl_name_str) == <<"m","a","c"," ","a","c","c","e","s","s","-","l","i","s","t"," ">> \o acl_name_str
delete_acl_template(acl_name_str) == <<"n","o"," ","m","a","c"," ","a","c","c","e","s","s","-","l","i","s","t"," ">> \o acl_name_str
delete_rule_by_seq_id(seq_id_str) == <<"n","o"," ","s","e","q","u","e","n","c","e"," ">> \o seq_id_str
show_l2_access_list(acl_name_str) == <<"s","h","o","w"," ","a","c","c","e","s","s","-","l","i","s","t"," ","l","2"," ">> \o acl_name_str
show_ip_access_list(acl_name_str) == <<"s","h","o","w"," ","i","p"," ","a","c","c","e","s","s","-","l","i","s","t"," ">> \o acl_name_str
show_ipv6_access_list(acl_name_str) == <<"s","h","o","w"," ","i","p","v","6"," ","a","c","c","e","s","s","-","l","i","s","t"," ">> \o acl_name_str
interface_submode_template(intf_type, intf_name) ==
    <<"i","n","t","e","r","f","a","c","e"," ">> \o intf_type \o SP \o intf_name
apply_acl_template(address_type, acl_name, acl_direction) ==
    address_type \o <<" ","a","c","c","e","s","s","-","g","r","o","u","p"," ">> \o acl_name \o SP \o acl_direction
remove_acl_template(address_type, acl_name, acl_direction) ==
    <<"n","o"," ">> \o address_type \o <<" ","a","c","c","e","s","s","-","g","r","o","u","p"," ">> \o acl_name \o SP \o acl_direction

show_access_list_all == <<"s","h","o","w"," ","a","c","c","e","s","s","-","l","i","s","t"," ","a","l","l">>
show_ipv6_access_list_all == <<"s","h","o","w"," ","i","p","v","6"," ","a","c","c","e","s","s","-","l","i","s","t">>

----------------------------------------------------------------------------
(* The command executor and the interpretation of its output *)

\* a variant of _callback_main that raises on every failed call with output
_callback_main_strict(status, output) ==
    IF ~status /\ output # <<>>
    THEN [raised |-> TRUE, out |-> output]
    ELSE [raised |-> FALSE, out |-> output]

\* Device._callback_main: a failed call raises unless its output is empty or
\* reports 'object already exists'; otherwise the output is returned
_callback_main(status, output) ==
    IF ~status /\ output # <<>> /\ ~Contains(output, <<"o","b","j","e","c","t"," ","a","l","r","e","a","d","y"," ","e","x","i","s","t","s">>)
    THEN [raised |-> TRUE, out |-> output]
    ELSE [raised |-> FALSE, out |-> output]

\* the error marker of device output
ErrorMarker == <<"E","r","r","o","r",":"," ">>

\* _process_cli_output: TRUE when the output is accepted; output carrying an
\* error marker is rejected unless it reports 'object already exists'
_process_cli_output(output) ==
    ~Contains(output, ErrorMarker) \/ Contains(output, <<"o","b","j","e","c","t"," ","a","l","r","e","a","d","y"," ","e","x","i","s","t","s">>)

----------------------------------------------------------------------------
(* Field parsers of IpAcl.  A parser returns a fragment, None, or raises.   *)

RNone == [k |-> "none", v |-> <<>>, e |-> ""]
RStr(s) == [k |-> "str", v |-> s, e |-> ""]
RErr(e) == [k |-> "err", v |-> <<>>, e |-> e]

\* Python 2 ordering of a value against an integer: an integer compares
\* numerically, a value of any other type is greater than every integer
PyGE(x, n) == IF x.t = "int" THEN x.v >= n ELSE TRUE
PyGT(x, n) == IF x.t = "int" THEN x.v > n ELSE TRUE
PyLE(x, n) == IF x.t = "int" THEN x.v <= n ELSE FALSE
PyLT(x, n) == IF x.t = "int" THEN x.v < n ELSE FALSE

\* s.find(t): the lowest index of t in s, -1 when there is none
Find(s, t) ==
    LET hits == {i \in 0..(Len(s) - Len(t)) : SubSeq(s, i + 1, i + Len(t)) = t}
    IN  IF hits = {} THEN 0 - 1 ELSE CHOOSE i \in hits : \A j \in hits : i <= j

s_permit == <<"p","e","r","m","i","t">>
s_deny == <<"d","e","n","y">>
s_any == <<"a","n","y">>
s_host == <<"h","o","s","t">>
s_tcp == <<"t","c","p">>
s_udp == <<"u","d","p">>

parse_action(p) ==
    IF ~Present(p, "action") THEN RErr("MissingParameter")
    ELSE IF p["action"].t = "str" /\ p["action"].v \in {s_permit, s_deny}
    THEN RStr(p["action"].v)
    ELSE RErr("InvalidValue")

TcpUdpOps == <<<<"r","a","n","g","e">>, <<"n","e","q">>, <<"l","t">>, <<"g","t">>, <<"e","q">>>>

_validate_op_str(op_str) ==
    LET toks == SplitWS(op_str)
    IN  \/ /\ Len(toks) = 2
           /\ toks[1] \in {<<"n","e","q">>, <<"l","t">>, <<"g","t">>, <<"e","q">>}
           /\ IsDigit(toks[2])
        \/ /\ Len(toks) = 3
           /\ toks[1] = <<"r","a","n","g","e">>

HexDigits == {"0","1","2","3","4","5","6","7","8","9",
              "a","b","c","d","e","f","A","B","C","D","E","F"}
OctDigits == {"0","1","2","3","4","5","6","7"}

HexVal(c) ==
    IF IsDigitChar(c) THEN DigitVal(c)
    ELSE CASE c \in {"a", "A"} -> 10 [] c \in {"b", "B"} -> 11
           [] c \in {"c", "C"} -> 12 [] c \in {"d", "D"} -> 13
           [] c \in {"e", "E"} -> 14 [] c \in {"f", "F"} -> 15

\* the number a digit string denotes in the given base, as the pair of its
\* upper and lower 16 bits; a number of more than 32 bits has hi = 65536
RECURSIVE BaseToInt(_, _)
BaseToInt(s, base) ==
    IF s = <<>> THEN [hi |-> 0, lo |-> 0]
    ELSE LET r == BaseToInt(SubSeq(s, 1, Len(s) - 1), base)
             low == base * r.lo + HexVal(s[Len(s)])
             high == base * r.hi + low \div 65536
         IN  [hi |-> IF high > 65535 THEN 65536 ELSE high, lo |-> low % 65536]

\* one dot-separated part of an address as inet_aton reads it: decimal, octal
\* with a leading 0, hexadecimal with a leading 0x; hi = -1 when it is no
\* number
AddrPart(s) ==
    IF s = <<>> THEN [hi |-> 0 - 1, lo |-> 0]
    ELSE IF Len(s) > 2 /\ s[1] = "0" /\ s[2] \in {"x", "X"}
    THEN IF \A i \in 3..Len(s) : s[i] \in HexDigits
         THEN BaseToInt(SubSeq(s, 3, Len(s)), 16) ELSE [hi |-> 0 - 1, lo |-> 0]
    ELSE IF Len(s) > 1 /\ s[1] = "0"
    THEN IF \A i \in 2..Len(s) : s[i] \in OctDigits
         THEN BaseToInt(SubSeq(s, 2, Len(s)), 8) ELSE [hi |-> 0 - 1, lo |-> 0]
    ELSE IF IsDigit(s) THEN BaseToInt(s, 10) ELSE [hi |-> 0 - 1, lo |-> 0]

\* socket.inet_aton accepts one to four parts, the last one filling the
\* remaining bytes, and ignores what follows the first whitespace
inet_aton(addr) ==
    LET toks == SplitWS(addr)
        parts == IF toks = <<>> THEN <<>> ELSE SplitOn(toks[1], ".")
        n == Len(parts)
        \* the part is a number of at most 8, 16, 24 or 32 bits
        PartFits(v, bits) ==
            /\ v.hi >= 0
            /\ CASE bits = 8 -> v.hi = 0 /\ v.lo <= 255
                 [] bits = 16 -> v.hi = 0
                 [] bits = 24 -> v.hi <= 255
                 [] bits = 32 -> v.hi <= 65535
    IN  /\ toks # <<>>
        /\ ~IsSpace(addr[1])
        /\ n \in 1..4
        /\ \A i \in 1..(n - 1) : PartFits(AddrPart(parts[i]), 8)
        /\ PartFits(AddrPart(parts[n]), 8 * (5 - n))

\* TRUE when _validate_ipv4 does not raise
_validate_ipv4(addr) == inet_aton(Normalize(addr))

_parse_source_destination(protocol_type, input_param) ==
    LET found == {k \in 1..Len(TcpUdpOps) : Find(input_param, TcpUdpOps[k]) >= 0}
        first == IF found = {} THEN 0
                 ELSE CHOOSE k \in found : \A j \in found : k <= j
        op_index == IF first = 0 THEN 0 - 1 ELSE Find(input_param, TcpUdpOps[first])
        op_str == IF first = 0 THEN <<>>
                  ELSE SubSeq(input_param, op_index + 1, Len(input_param))
        v4_str == IF first = 0 THEN input_param
                  ELSE SubSeq(input_param, 1, op_index)
        is_tcp_udp == protocol_type.t = "str" /\ protocol_type.v \in {s_tcp, s_udp}
        slashed == SplitOn(v4_str, "/")
        pair == SplitWS(v4_str)
    IN  IF ~is_tcp_udp /\ op_str # <<>> THEN RErr("InvalidValue")
        ELSE IF op_str # <<>> /\ ~_validate_op_str(op_str) THEN RErr("InvalidValue")
        ELSE IF Slice0(v4_str, 3) = s_any THEN RStr(v4_str \o SP \o op_str)
        ELSE IF Slice0(v4_str, 4) = s_host THEN RStr(v4_str \o SP \o op_str)
        ELSE IF Contains(v4_str, <<"/">>)
        THEN IF Len(slashed) # 2 THEN RErr("UnpackError")
             ELSE IF ~_validate_ipv4(slashed[1]) THEN RErr("InvalidAddress")
             ELSE IF ~IsDigit(slashed[2]) THEN RErr("InvalidAddress")
             ELSE RStr(v4_str \o SP \o op_str)
        ELSE IF Len(pair) # 2 THEN RErr("UnpackError")
        ELSE IF ~_validate_ipv4(pair[1]) THEN RErr("InvalidAddress")
        ELSE IF ~_validate_ipv4(pair[2]) THEN RErr("InvalidAddress")
        ELSE RStr(v4_str \o SP \o op_str)

parse_source(p) ==
    IF ~Present(p, "source") THEN RErr("MissingParameter")
    ELSE IF p["source"].t # "str" THEN RErr("AttributeError")
    ELSE IF ~Has(p, "protocol_type") THEN RErr("KeyError")
    ELSE _parse_source_destination(p["protocol_type"], Normalize(p["source"].v))

parse_destination(p) ==
    IF ~Present(p, "destination") THEN RNone
    ELSE IF ~Present(p, "protocol_type") THEN RErr("MissingParameter")
    ELSE IF p["destination"].t # "str" THEN RErr("AttributeError")
    ELSE _parse_source_destination(p["protocol_type"],
                                   Normalize(p["destination"].v))

parse_established(p) ==
    IF ~Present(p, "established") THEN RNone ELSE RStr(<<"e","s","t","a","b","l","i","s","h","e","d">>)

\* str(x)
PyStrOf(x) == IF x.t = "int" THEN IntToStr(x.v) ELSE x.v

\* a variant of parse_vlan that accepts the 1-4096 of its docstring
parse_vlan_inclusive(p) ==
    IF ~Has(p, "vlan_id") THEN RNone
    ELSE IF ~Truthy(p["vlan_id"]) THEN RNone
    ELSE IF PyGT(p["vlan_id"], 0) /\ PyLE(p["vlan_id"], 4096)
    THEN RStr(PyStrOf(p["vlan_id"]))
    ELSE RErr("InvalidValue")

parse_vlan(p) ==
    IF ~Has(p, "vlan_id") THEN RNone
    ELSE IF ~Truthy(p["vlan_id"]) THEN RNone
    ELSE IF PyGT(p["vlan_id"], 0) /\ PyLT(p["vlan_id"], 4096)
    THEN RStr(PyStrOf(p["vlan_id"]))
    ELSE RErr("InvalidValue")

parse_log(p) ==
    IF Has(p, "log") THEN RNone
    ELSE RErr("KeyError")

ProtocolNames ==
    {<<"a","_","n">>,
     <<"a","h","p">>,
     <<"a","r","g","u","s">>,
     <<"a","r","i","s">>,
     <<"a","x","2","5">>,
     <<"b","b","n","-","r","c","c">>,
     <<"b","n","a">>,
     <<"b","r","-","s","a","t","-","m","o","n">>,
     <<"c","b","t">>,
     <<"c","f","t","p">>,
     <<"c","h","a","o","s">>,
     <<"c","o","m","p","a","q","-","p","e","e","r">>,
     <<"c","p","h","b">>,
     <<"c","p","n","x">>,
     <<"c","r","d","u","p">>,
     <<"c","r","t","p">>,
     <<"d","c","n">>,
     <<"d","d","p">>,
     <<"d","d","x">>,
     <<"d","g","p">>,
     <<"d","i","v","e","r","t">>,
     <<"e","g","p">>,
     <<"e","m","c","o","n">>,
     <<"e","n","c","a","p">>,
     <<"e","s","p">>,
     <<"e","t","h","e","r","i","p">>,
     <<"f","c">>,
     <<"f","i","r","e">>,
     <<"g","g","p">>,
     <<"g","m","t","p">>,
     <<"g","r","e">>,
     <<"h","i","p">>,
     <<"h","m","p">>,
     <<"i","-","n","l","s","p">>,
     <<"i","a","t","p">>,
     <<"i","c","m","p">>,
     <<"i","d","p","r">>,
     <<"i","d","p","r","-","c","m","t","p">>,
     <<"i","d","r","p">>,
     <<"i","f","m","p">>,
     <<"i","g","m","p">>,
     <<"i","g","p">>,
     <<"i","g","r","p">>,
     <<"i","l">>,
     <<"i","p">>,
     <<"i","p","c","o","m","p">>,
     <<"i","p","c","v">>,
     <<"i","p","e","n","c","a","p">>,
     <<"i","p","i","p">>,
     <<"i","p","l","t">>,
     <<"i","p","p","c">>,
     <<"i","p","v","6">>,
     <<"i","p","v","6","-","f","r","a","g">>,
     <<"i","p","v","6","-","i","c","m","p">>,
     <<"i","p","v","6","-","n","o","n","x","t">>,
     <<"i","p","v","6","-","o","p","t","s">>,
     <<"i","p","v","6","-","r","o","u","t","e">>,
     <<"i","p","x","-","i","n","-","i","p">>,
     <<"i","r","t","p">>,
     <<"i","s","i","s">>,
     <<"i","s","o","-","i","p">>,
     <<"i","s","o","-","t","p","4">>,
     <<"k","r","y","p","t","o","l","a","n">>,
     <<"l","2","t","p">>,
     <<"l","a","r","p">>,
     <<"l","e","a","f","-","1">>,
     <<"l","e","a","f","-","2">>,
     <<"m","a","n","e","t">>,
     <<"m","e","r","i","t","-","i","n","p">>,
     <<"m","f","e","-","n","s","p">>,
     <<"m","h","r","p">>,
     <<"m","i","c","p">>,
     <<"m","o","b","i","l","e">>,
     <<"m","o","b","i","l","i","t","y","-","h","e","a","d","e","r">>,
     <<"m","p","l","s","-","i","n","-","i","p">>,
     <<"m","t","p">>,
     <<"m","u","x">>,
     <<"n","a","r","p">>,
     <<"n","e","t","b","l","t">>,
     <<"n","s","f","n","e","t","-","i","g","p">>,
     <<"n","v","p">>,
     <<"o","s","p","f">>,
     <<"p","g","m">>,
     <<"p","i","m">>,
     <<"p","i","p","e">>,
     <<"p","n","n","i">>,
     <<"p","r","m">>,
     <<"p","t","p">>,
     <<"p","u","p">>,
     <<"p","v","p">>,
     <<"q","n","x">>,
     <<"r","d","p">>,
     <<"r","s","v","p">>,
     <<"r","s","v","p","-","e","2","e","-","i","g","n","o","r","e">>,
     <<"r","v","d">>,
     <<"s","a","t","-","e","x","p","a","k">>,
     <<"s","a","t","-","m","o","n">>,
     <<"s","c","c","-","s","p">>,
     <<"s","c","p","s">>,
     <<"s","c","t","p">>,
     <<"s","d","r","p">>,
     <<"s","e","c","u","r","e","-","v","m","t","p">>,
     <<"s","e","p">>,
     <<"s","h","i","m","6">>,
     <<"s","k","i","p">>,
     <<"s","m">>,
     <<"s","m","p">>,
     <<"s","n","p">>,
     <<"s","p","r","i","t","e","-","r","p","c">>,
     <<"s","p","s">>,
     <<"s","r","p">>,
     <<"s","s","c","o","p","m","c","e">>,
     <<"s","t">>,
     <<"s","t","2">>,
     <<"s","u","n","-","n","d">>,
     <<"s","w","i","p","e">>,
     <<"t","c","f">>,
     <<"t","c","p">>,
     <<"t","h","i","r","d","-","p","c">>,
     <<"t","l","s","p">>,
     <<"t","p","+","+">>,
     <<"t","r","u","n","k","-","1">>,
     <<"t","r","u","n","k","-","2">>,
     <<"t","t","p">>,
     <<"u","d","p">>,
     <<"u","d","p","l","i","t","e">>,
     <<"u","t","i">>,
     <<"v","i","n","e","s">>,
     <<"v","i","s","a">>,
     <<"v","l","a","n">>,
     <<"v","m","t","p">>,
     <<"v","r","r","p">>,
     <<"w","b","-","e","x","p","a","k">>,
     <<"w","b","-","m","o","n">>,
     <<"w","s","n">>,
     <<"x","n","e","t">>,
     <<"x","n","s","-","i","d","p">>,
     <<"x","t","p">>}
parse_protocol(p) ==
    IF ~Has(p, "protocol_type") THEN RNone
    ELSE IF ~Truthy(p["protocol_type"]) THEN RNone
    ELSE IF p["protocol_type"].t # "str" THEN RErr("AttributeError")
    ELSE LET protocol_type == p["protocol_type"].v
         IN  IF IsDigit(protocol_type) /\ StrToInt(protocol_type) > 255
             THEN RErr("InvalidValue")
             ELSE IF protocol_type \notin ProtocolNames THEN RErr("InvalidValue")
             ELSE RStr(protocol_type)

\* the parsers of a digit string in 0..hi rendered after a keyword
DigitRange(p, key, keyword, hi) ==
    IF p[key].t # "str" THEN RErr("AttributeError")
    ELSE LET val == Normalize(p[key].v)
         IN  IF IsDigit(val) /\ StrToInt(val) >= 0 /\ StrToInt(val) <= hi
             THEN RStr(keyword \o SP \o val)
             ELSE RErr("InvalidValue")

parse_dscp_mapping(p) ==
    IF ~Present(p, "dscp") THEN RNone
    ELSE DigitRange(p, "dscp", <<"d","s","c","p","-","m","a","p","p","i","n","g">>, 63)

parse_dscp_marking(p) ==
    IF ~Present(p, "dscp_marking") THEN RNone
    ELSE DigitRange(p, "dscp_marking", <<"d","s","c","p","-","m","a","r","k","i","n","g">>, 63)

parse_fragment(p) ==
    IF ~Present(p, "fragment") THEN RNone
    ELSE IF p["fragment"].t # "str" THEN RErr("AttributeError")
    ELSE LET fragment == Normalize(p["fragment"].v)
         IN  IF fragment \in {<<"f","r","a","g","m","e","n","t">>, <<"n","o","n","-","f","r","a","g","m","e","n","t">>}
             THEN RStr(fragment) ELSE RErr("InvalidValue")

\* the keyword list of parse_precedence; 'critical' 'flash' is one literal
PrecedenceNames ==
    {<<"c","r","i","t","i","c","a","l","f","l","a","s","h">>, <<"f","l","a","s","h","-","o","v","e","r","r","i","d","e">>, <<"i","m","m","e","d","i","a","t","e">>, <<"i","n","t","e","r","n","e","t">>,
     <<"n","e","t","w","o","r","k">>, <<"p","r","i","o","r","i","t","y">>, <<"r","o","u","t","i","n","e">>}

parse_precedence(p) ==
    IF ~Present(p, "precedence") THEN RNone
    ELSE IF p["precedence"].t # "str" THEN RErr("AttributeError")
    ELSE LET precedence == Normalize(p["precedence"].v)
         IN  IF IsDigit(precedence) /\ StrToInt(precedence) <= 7
             THEN RStr(<<"p","r","e","c","e","d","e","n","c","e"," ">> \o precedence)
             ELSE IF precedence \in PrecedenceNames
             THEN RStr(<<"p","r","e","c","e","d","e","n","c","e"," ">> \o precedence)
             ELSE RErr("InvalidValue")

\* TRUE when _is_tcp_udp_opstr_set raises
_is_tcp_udp_opstr_set(input_param) ==
    \E k \in 1..Len(TcpUdpOps) : Find(input_param, TcpUdpOps[k]) >= 0

OptionNames ==
    {<<"a","n","y">>, <<"e","o","l">>, <<"e","x","t","e","n","d","e","d","-","s","e","c","u","r","i","t","y">>, <<"i","g","n","o","r","e">>,
     <<"l","o","o","s","e","-","s","o","u","r","c","e","-","r","o","u","t","e">>, <<"n","o","-","o","p">>, <<"r","e","c","o","r","d","-","r","o","u","t","e">>, <<"r","o","u","t","e","r","-","a","l","e","r","t">>,
     <<"s","e","c","u","r","i","t","y">>, <<"s","t","r","e","a","m","i","d">>, <<"s","t","r","i","c","t","-","s","o","u","r","c","e","-","r","o","u","t","e">>, <<"t","i","m","e","s","t","a","m","p">>}

parse_option(p) ==
    IF ~Present(p, "option") THEN RNone
    ELSE LET tcp_udp == Present(p, "protocol_type")
                        /\ p["protocol_type"].t = "str"
                        /\ p["protocol_type"].v \in {s_tcp, s_udp}
             has_src == Present(p, "source")
             has_dst == Present(p, "destination")
             src == Normalize(Text(p, "source"))
             option == Normalize(Text(p, "option"))
         IN  IF tcp_udp /\ has_src /\ p["source"].t # "str"
             THEN RErr("AttributeError")
             ELSE IF tcp_udp /\ has_src /\ _is_tcp_udp_opstr_set(src)
             THEN RErr("ConflictingParameters")
             ELSE IF tcp_udp /\ has_dst /\ ~has_src
             THEN RErr("UnboundLocalError")
             ELSE IF tcp_udp /\ has_dst /\ _is_tcp_udp_opstr_set(src)
             THEN RErr("ConflictingParameters")
             ELSE IF p["option"].t # "str" THEN RErr("AttributeError")
             ELSE IF IsDigit(option) /\ StrToInt(option) <= 255
             THEN RStr(<<"o","p","t","i","o","n"," ">> \o option)
             ELSE IF option \in OptionNames
             THEN RStr(<<"o","p","t","i","o","n"," ">> \o option)
             ELSE RErr("InvalidValue")

parse_suppress_rpf_drop(p) ==
    IF ~Present(p, "suppress_rpf_drop") THEN RNone
    ELSE RStr(<<"s","u","p","p","r","e","s","s","-","r","p","f","-","d","r","o","p">>)

\* the parsers of a value compared against 0..hi and rendered after a keyword
ValueRange(p, key, keyword, hi) ==
    IF PyGE(p[key], 0) /\ PyLE(p[key], hi)
    THEN RStr(keyword \o SP \o PyStrOf(p[key]))
    ELSE RErr("InvalidValue")

parse_priority(p) ==
    IF ~Present(p, "priority") THEN RNone
    ELSE IF Present(p, "priority_force") THEN RErr("ConflictingParameters")
    ELSE ValueRange(p, "priority", <<"p","r","i","o","r","i","t","y">>, 7)

parse_priority_force(p) ==
    IF ~Present(p, "priority_force") THEN RNone
    ELSE IF Present(p, "priority") THEN RErr("ConflictingParameters")
    ELSE ValueRange(p, "priority_force", <<"p","r","i","o","r","i","t","y","-","f","o","r","c","e">>, 7)

parse_priority_mapping(p) ==
    IF ~Present(p, "priority_mapping") THEN RNone
    ELSE ValueRange(p, "priority_mapping", <<"p","r","i","o","r","i","t","y","-","m","a","p","p","i","n","g">>, 7)

parse_tos(p) ==
    IF ~Present(p, "tos") THEN RNone
    ELSE ValueRange(p, "tos", <<"t","o","s">>, 15)

parse_mirror(p) ==
    IF Has(p, "mirror") THEN RNone
    ELSE RErr("KeyError")

\* a variant of parse_drop_precedence that does not look at
\* drop_precedence_force
parse_drop_precedence_alone(p) ==
    IF ~Present(p, "drop_precedence") THEN RNone
    ELSE DigitRange(p, "drop_precedence", <<"d","r","o","p","-","p","r","e","c","e","d","e","n","c","e">>, 3)

parse_drop_precedence(p) ==
    IF ~Present(p, "drop_precedence") THEN RNone
    ELSE IF Present(p, "drop_precedence_force")
    THEN RErr("ConflictingParameters")
    ELSE DigitRange(p, "drop_precedence", <<"d","r","o","p","-","p","r","e","c","e","d","e","n","c","e">>, 3)

parse_drop_precedence_force(p) ==
    IF ~Present(p, "drop_precedence_force") THEN RNone
    ELSE IF Present(p, "drop_precedence") THEN RErr("ConflictingParameters")
    ELSE DigitRange(p, "drop_precedence_force", <<"d","r","o","p","-","p","r","e","c","e","d","e","n","c","e","-","f","o","r","c","e">>, 3)

\* parsers the IPv4 rule builders call on IpAcl, which defines none of the
\* three: the attribute lookup raises AttributeError
parse_seq_id(p) == RErr("AttributeError")

parse_copy_sflow(p) == RErr("AttributeError")

parse_icmp_filter(p) == RErr("AttributeError")

----------------------------------------------------------------------------
(* Rule builders and the rule-line templates *)

\* the position of the first parser that raised, 0 when none did
FirstErr(rs) ==
    LET bad == {i \in 1..Len(rs) : rs[i].k = "err"}
    IN  IF bad = {} THEN 0 ELSE CHOOSE i \in bad : \A j \in bad : i <= j

\* what a builder returns: the first parser error, or the fragments in
\* builder order (None for an absent fragment)
Built(rs) ==
    IF FirstErr(rs) = 0 THEN [ok |-> TRUE, err |-> "", frags |-> rs]
    ELSE [ok |-> FALSE, err |-> rs[FirstErr(rs)].e, frags |-> <<>>]

\* user_data['acl_name_str'] = parameters['acl_name']
acl_name_str(p) ==
    IF Has(p, "acl_name") THEN RStr(Text(p, "acl_name")) ELSE RErr("KeyError")

\* the check of the received parameters against the list of supported ones:
\* a truthy parameter outside the list is refused
_is_parameter_supported(supported_params, p) ==
    IF \E k \in DOMAIN p : Truthy(p[k]) /\ k \notin supported_params
    THEN RErr("UnsupportedParameter")
    ELSE RNone

parse_params_for_add_ipv4_standard(p) ==
    LET supported_params == {"acl_name", "seq_id", "action", "source",
                             "vlan_id", "log"}
        supported == _is_parameter_supported(supported_params, p)
    IN  IF supported.k = "err"
        THEN [ok |-> FALSE, err |-> supported.e, frags |-> <<>>]
        ELSE Built(<<acl_name_str(p), parse_seq_id(p), parse_action(p),
                     parse_source(p), parse_vlan(p), parse_log(p)>>)

parse_params_for_add_ipv4_extended(p) ==
    Built(<<acl_name_str(p), parse_seq_id(p), parse_action(p), parse_vlan(p),
            parse_protocol(p), parse_source(p), parse_destination(p),
            parse_copy_sflow(p), parse_established(p), parse_icmp_filter(p),
            parse_dscp_mapping(p), parse_dscp_marking(p), parse_fragment(p),
            parse_precedence(p), parse_option(p), parse_suppress_rpf_drop(p),
            parse_priority(p), parse_priority_force(p),
            parse_priority_mapping(p), parse_tos(p),
            parse_drop_precedence(p), parse_drop_precedence_force(p),
            parse_log(p), parse_mirror(p)>>)

\* a rule-line template: every fragment after acl_name_str in its slot,
\* slots separated by a blank, an absent fragment rendered as the empty
\* string; the name is in the enter-context command
add_rule_template(frags) ==
    Join([i \in 1..(Len(frags) - 1) |-> frags[i + 1].v], SP)
----------------------------------------------------------------------------
(* Outcome of one stretch of handler code between two executor calls: the   *)
(* handler either finishes (returns or raises) or hands a call to the       *)
(* executor and waits for its output.                                       *)

Frame0 == [res |-> <<>>, acl_type |-> <<>>, address_type |-> <<>>,
           stage |-> "", idx |-> 0]

Done(r, f) == [next |-> "done", result |-> r, calls |-> <<>>, frame |-> f]
Wait(label, cmds, handler, f) ==
    [next |-> label, result |-> "none",
     calls |-> <<[cmds |-> cmds, handler |-> handler]>>, frame |-> f]

----------------------------------------------------------------------------
(* params_validator and MacAcl.parse_acl_name *)

RequiredParams(o) ==
    CASE o = "create_acl" -> {"acl_name", "address_type"}
      [] o = "delete_acl" -> {"acl_name"}
      [] o \in {"delete_ipv4_acl_rule", "delete_ipv6_acl_rule"} ->
             {"acl_name", "seq_id"}
      [] o \in {"apply_acl", "remove_acl"} -> {"acl_name", "intf_type"}
      [] OTHER -> {"acl_name"}

\* validate_params_mlx_<operation>: every required parameter is supplied
validate_params(o, p) == \A k \in RequiredParams(o) : Present(p, k)

parse_acl_name(p) == Text(p, "acl_name")

----------------------------------------------------------------------------
(* get_acl_address_and_acl_type *)

\* the first query of get_acl_address_and_acl_type
get_acl_address_and_acl_type_query(f, stage) ==
    Wait("ident1", <<show_access_list_all>>, "cli-get",
         [f EXCEPT !.stage = stage, !.res = <<>>])

\* the scan of the concatenated listing lines: the first line containing the
\* name decides; protocol '' means the lookup raises
get_acl_address_and_acl_type(res, acl_name) ==
    LET hits == {i \in 1..Len(res) : Contains(res[i], acl_name)}
    IN  IF hits = {} THEN [type |-> <<>>, protocol |-> <<>>]
        ELSE LET line == res[CHOOSE i \in hits : \A j \in hits : i <= j]
             IN  IF Slice0(line, 4) = <<"m","a","c"," ">>
                 THEN [type |-> s_extended, protocol |-> s_mac]
                 ELSE IF Slice0(line, 3) = <<"i","p"," ">>
                 THEN [type |-> IF Contains(line, s_extended)
                                THEN s_extended ELSE s_standard,
                       protocol |-> s_ip]
                 ELSE IF Slice0(line, 5) = <<"i","p","v","6"," ">>
                 THEN [type |-> s_standard, protocol |-> s_ipv6]
                 ELSE [type |-> <<>>, protocol |-> <<>>]

----------------------------------------------------------------------------
(* create_acl / delete_acl *)

create_acl(p, f) ==
    IF ~validate_params("create_acl", p) THEN Done("MissingParameter", f)
    ELSE LET address_type == Text(p, "address_type")
             acl_type == Get(p, "acl_type")
             acl_name == parse_acl_name(p)
         IN  IF address_type = s_mac
             THEN Wait("exec", <<<<"m","a","c"," ","a","c","c","e","s","s","-","l","i","s","t"," ">> \o acl_name>>, "cli-set", f)
             ELSE IF address_type = s_ip
             THEN IF ~Truthy(acl_type) THEN Done("MissingParameter", f)
                  ELSE Wait("exec", <<<<"i","p"," ","a","c","c","e","s","s","-","l","i","s","t"," ">> \o acl_type.v
                                       \o SP \o acl_name>>, "cli-set", f)
             ELSE IF address_type = s_ipv6
             THEN Wait("exec", <<<<"i","p","v","6"," ","a","c","c","e","s","s","-","l","i","s","t"," ">> \o acl_name>>, "cli-set", f)
             ELSE Done("UnsupportedAddressType", f)

delete_acl(p, f) ==
    IF ~validate_params("delete_acl", p) THEN Done("MissingParameter", f)
    ELSE get_acl_address_and_acl_type_query(f, "delete_acl")

\* a variant of delete_acl_config that prefers the address type and ACL type
\* the caller passed over the ones resolved from the device
delete_acl_config_caller(p, ret, f) ==
    LET acl_name == Text(p, "acl_name")
        acl_type == IF Present(p, "acl_type") THEN Text(p, "acl_type")
                    ELSE ret.type
        address_type == IF Present(p, "address_type")
                        THEN Text(p, "address_type") ELSE ret.protocol
    IN  IF address_type = s_mac
        THEN Wait("exec", <<delete_acl_template(acl_name)>>, "cli-set", f)
        ELSE IF address_type = s_ip
        THEN Wait("exec", <<<<"n","o"," ","i","p"," ","a","c","c","e","s","s","-","l","i","s","t"," ">> \o acl_type \o SP
                             \o acl_name>>, "cli-set", f)
        ELSE IF address_type = s_ipv6
        THEN Wait("exec", <<<<"n","o"," ","i","p","v","6"," ","a","c","c","e","s","s","-","l","i","s","t"," ">> \o acl_name>>, "cli-set", f)
        ELSE Done("UnsupportedAddressType", f)

\* delete_acl once the identity of the ACL is resolved
delete_acl_config(p, ret, f) ==
    LET acl_name == Text(p, "acl_name")
        acl_type == ret.type
        address_type == ret.protocol
    IN  IF address_type = s_mac
        THEN Wait("exec", <<delete_acl_template(acl_name)>>, "cli-set", f)
        ELSE IF address_type = s_ip
        THEN Wait("exec", <<<<"n","o"," ","i","p"," ","a","c","c","e","s","s","-","l","i","s","t"," ">> \o acl_type \o SP
                             \o acl_name>>, "cli-set", f)
        ELSE IF address_type = s_ipv6
        THEN Wait("exec", <<<<"n","o"," ","i","p","v","6"," ","a","c","c","e","s","s","-","l","i","s","t"," ">> \o acl_name>>, "cli-set", f)
        ELSE Done("UnsupportedAddressType", f)

----------------------------------------------------------------------------
(* is_valid_seq_id and the three delete-rule operations *)

\* is_valid_seq_id up to its call of get_address_type
is_valid_seq_id(seq_id, acl_name, f) ==
    IF acl_name = <<>> THEN Done("MissingParameter", f)
    ELSE IF ~Truthy(seq_id) THEN Done("MissingParameter", f)
    ELSE get_acl_address_and_acl_type_query(f, "get_address_type")

\* is_valid_seq_id: the rule listing command for the resolved address type
is_valid_seq_id_config(address_type, acl_name, f) ==
    IF address_type = s_mac
    THEN Wait("seqlist", <<Normalize(show_l2_access_list(acl_name))>>, "cli-get", f)
    ELSE IF address_type = s_ip
    THEN Wait("seqlist", <<Normalize(show_ip_access_list(acl_name))>>, "cli-get", f)
    ELSE IF address_type = s_ipv6
    THEN Wait("seqlist", <<Normalize(show_ipv6_access_list(acl_name))>>, "cli-get", f)
    ELSE Done("UnsupportedAddressType", f)

\* a variant of is_valid_seq_id_scan that accepts any numbered line
is_valid_seq_id_scan_any(output, seq_id) ==
    LET lines == SplitOn(output, "\n")
    IN  \E i \in 1..Len(lines) :
            LET line_seq_id == Normalize(SplitOn(lines[i], ":")[1])
            IN  /\ lines[i] # <<>>
                /\ IsDigit(line_seq_id)

\* a variant of is_valid_seq_id_scan that wants the number on one line only
is_valid_seq_id_scan_unique(output, seq_id) ==
    LET lines == SplitOn(output, "\n")
        hit(i) == LET line_seq_id == Normalize(SplitOn(lines[i], ":")[1])
                  IN  /\ lines[i] # <<>>
                      /\ IsDigit(line_seq_id)
                      /\ seq_id.t = "int"
                      /\ StrToInt(line_seq_id) = seq_id.v
    IN  Cardinality({i \in 1..Len(lines) : hit(i)}) = 1

\* is_valid_seq_id: the scan of the rule listing for the sequence number
is_valid_seq_id_scan(output, seq_id) ==
    LET lines == SplitOn(output, "\n")
    IN  \E i \in 1..Len(lines) :
            LET line_seq_id == Normalize(SplitOn(lines[i], ":")[1])
            IN  /\ lines[i] # <<>>
                /\ IsDigit(line_seq_id)
                /\ seq_id.t = "int"
                /\ StrToInt(line_seq_id) = seq_id.v

\* str() of the value Jinja renders into a template slot
Render(x) ==
    CASE x.t = "int" -> IntToStr(x.v)
      [] x.t = "str" -> x.v
      [] OTHER -> <<>>

delete_rule_config(p) ==
    Normalize(StripDisallowed(delete_rule_by_seq_id(Render(Get(p, "seq_id")))))

delete_l2_acl_rule(p, f) ==
    IF ~Present(p, "seq_id") THEN Done("MissingParameter", f)
    ELSE IF ~Present(p, "acl_name") THEN Done("MissingParameter", f)
    ELSE is_valid_seq_id(Get(p, "seq_id"), parse_acl_name(p), f)

\* delete_l2_acl_rule after is_valid_seq_id returned
delete_l2_acl_rule_batch(p, f) ==
    Wait("exec", <<Normalize(create_acl_template(parse_acl_name(p))),
                   delete_rule_config(p)>>, "cli-set", f)

delete_ipv4_acl_rule(p, f) ==
    IF ~validate_params("delete_ipv4_acl_rule", p) THEN Done("MissingParameter", f)
    ELSE get_acl_address_and_acl_type_query(f, "get_acl_type")

\* delete_ipv4_acl_rule after is_valid_seq_id returned
delete_ipv4_acl_rule_batch(p, f) ==
    Wait("exec", <<<<"i","p"," ","a","c","c","e","s","s","-","l","i","s","t"," ">> \o SP \o f.acl_type \o SP
                     \o Text(p, "acl_name"),
                   delete_rule_config(p)>>, "cli-set", f)

delete_ipv6_acl_rule(p, f) ==
    IF ~validate_params("delete_ipv6_acl_rule", p) THEN Done("MissingParameter", f)
    ELSE is_valid_seq_id(Get(p, "seq_id"), Text(p, "acl_name"), f)

\* delete_ipv6_acl_rule after is_valid_seq_id returned
delete_ipv6_acl_rule_batch(p, f) ==
    Wait("exec", <<<<"i","p","v","6"," ","a","c","c","e","s","s","-","l","i","s","t"," ">> \o SP \o Text(p, "acl_name"),
                   delete_rule_config(p)>>, "cli-set", f)

delete_rule_batch(o, p, f) ==
    CASE o = "delete_l2_acl_rule" -> delete_l2_acl_rule_batch(p, f)
      [] o = "delete_ipv4_acl_rule" -> delete_ipv4_acl_rule_batch(p, f)
      [] o = "delete_ipv6_acl_rule" -> delete_ipv6_acl_rule_batch(p, f)

----------------------------------------------------------------------------
(* apply_acl / remove_acl *)

IntfList(p) == IF Has(p, "intf_name") /\ p["intf_name"].t = "list"
               THEN p["intf_name"].v ELSE <<>>

\* the interface-context command of one interface
interface_config(p, intf) ==
    Normalize(interface_submode_template(Text(p, "intf_type"), intf))

apply_acl_config(p, address_type) ==
    Normalize(apply_acl_template(address_type, Text(p, "acl_name"),
                                 Text(p, "acl_direction")))

remove_acl_config(p, address_type) ==
    Normalize(remove_acl_template(address_type, Text(p, "acl_name"),
                                  Text(p, "acl_direction")))

\* apply_acl and remove_acl up to their call of get_address_type
apply_acl(o, p, f) ==
    IF ~validate_params(o, p) THEN Done("MissingParameter", f)
    ELSE IF ~Present(p, "intf_name") THEN Done("MissingParameter", f)
    ELSE get_acl_address_and_acl_type_query(f, "get_address_type")

\* a variant of apply_acl_checks without the port_channel check
apply_acl_checks_no_port_channel(p, address_type, f) ==
    LET intf_type == Text(p, "intf_type")
        g == [f EXCEPT !.address_type = address_type, !.idx = 1]
    IN  IF address_type \notin {s_mac, s_ip, s_ipv6}
        THEN Done("UnsupportedAddressType", f)
        ELSE IF address_type = s_mac /\ intf_type # s_ethernet
        THEN Done("UnsupportedInterfaceType", f)
        ELSE Wait("probe", <<Normalize(interface_submode_template(
                                 intf_type, IntfList(p)[1]))>>, "cli-set", g)

\* the checks after get_address_type, then the first interface probe
apply_acl_checks(p, address_type, f) ==
    LET intf_type == Text(p, "intf_type")
        g == [f EXCEPT !.address_type = address_type, !.idx = 1]
    IN  IF address_type \notin {s_mac, s_ip, s_ipv6}
        THEN Done("UnsupportedAddressType", f)
        ELSE IF address_type = s_mac /\ intf_type # s_ethernet
        THEN Done("UnsupportedInterfaceType", f)
        ELSE IF intf_type = s_port_channel
        THEN Done("UnsupportedInterfaceType", f)
        ELSE Wait("probe", <<interface_config(p, IntfList(p)[1])>>, "cli-set", g)

\* the bind batch apply_acl submits for interface i
apply_acl_batch(p, f, i) ==
    <<interface_config(p, IntfList(p)[i]),
      apply_acl_config(p, f.address_type), s_exit>>

\* the commands remove_acl collects for interface i
remove_acl_cmds(p, f, i) ==
    <<interface_config(p, IntfList(p)[i]),
      remove_acl_config(p, f.address_type), s_exit>>

RECURSIVE remove_acl_cli_arr(_, _, _)
remove_acl_cli_arr(p, f, i) ==
    IF i > Len(IntfList(p)) THEN <<>>
    ELSE remove_acl_cmds(p, f, i) \o remove_acl_cli_arr(p, f, i + 1)

\* a variant of apply_acl_probe that probes inside the second loop: the
\* mutating batch of an interface follows its own probe
apply_acl_probe_interleaved(o, p, f, output) ==
    IF ~_process_cli_output(output) THEN Done("DeviceRejected", f)
    ELSE IF o = "apply_acl"
    THEN Wait("bind",
              <<Normalize(interface_submode_template(Text(p, "intf_type"),
                                                     IntfList(p)[f.idx])),
                Normalize(apply_acl_template(f.address_type,
                                             Text(p, "acl_name"),
                                             Text(p, "acl_direction"))),
                s_exit>>, "cli-set", [f EXCEPT !.idx = 1])
    ELSE Wait("exec",
              <<Normalize(interface_submode_template(Text(p, "intf_type"),
                                                     IntfList(p)[f.idx])),
                Normalize(remove_acl_template(f.address_type,
                                              Text(p, "acl_name"),
                                              Text(p, "acl_direction"))),
                s_exit>>, "cli-set", f)

\* the first loop of apply_acl / remove_acl after the probe of interface
\* f.idx returned output, and the start of the second loop once it ends
apply_acl_probe(o, p, f, output) ==
    IF ~_process_cli_output(output) THEN Done("DeviceRejected", f)
    ELSE IF f.idx < Len(IntfList(p))
    THEN Wait("probe", <<interface_config(p, IntfList(p)[f.idx + 1])>>,
              "cli-set", [f EXCEPT !.idx = f.idx + 1])
    ELSE IF o = "apply_acl"
    THEN Wait("bind", apply_acl_batch(p, f, 1), "cli-set", [f EXCEPT !.idx = 1])
    ELSE Wait("exec", remove_acl_cli_arr(p, f, 1), "cli-set", f)

\* a variant of apply_acl_bind without the tolerance of a pre-existing binding
apply_acl_bind_strict(p, f, output) ==
    IF _process_cli_output(output)
    THEN IF f.idx < Len(IntfList(p))
         THEN Wait("bind", apply_acl_batch(p, f, f.idx + 1), "cli-set",
                   [f EXCEPT !.idx = f.idx + 1])
         ELSE Done("ok", f)
    ELSE Done("DeviceRejected", f)

\* a variant of apply_acl_bind that goes on to the next interface after a
\* rejected batch and reports the failure at the end of the list
apply_acl_bind_continue(p, f, output) ==
    LET bad == ~((Contains(output, <<"E","r","r","o","r",":"," ">>)
                    /\ Contains(output, Text(p, "acl_name")))
                 \/ _process_cli_output(output))
        g == [f EXCEPT !.stage = IF bad THEN "failed" ELSE f.stage]
    IN  IF f.idx < Len(IntfList(p))
        THEN Wait("bind", apply_acl_batch(p, g, f.idx + 1), "cli-set",
                  [g EXCEPT !.idx = f.idx + 1])
        ELSE IF g.stage = "failed" THEN Done("DeviceRejected", g)
        ELSE Done("ok", g)

\* the second loop of apply_acl after the bind batch of interface f.idx
\* returned output
apply_acl_bind(p, f, output) ==
    IF (Contains(output, <<"E","r","r","o","r",":"," ">>) /\ Contains(output, Text(p, "acl_name")))
       \/ _process_cli_output(output)
    THEN IF f.idx < Len(IntfList(p))
         THEN Wait("bind", apply_acl_batch(p, f, f.idx + 1), "cli-set",
                   [f EXCEPT !.idx = f.idx + 1])
         ELSE Done("ok", f)
    ELSE Done("DeviceRejected", f)

----------------------------------------------------------------------------
(* add_l2_acl_rule / add_ipv4_rule_acl / add_ipv6_rule_acl *)

\* MacAcl and Ipv6Acl are not part of the sources at hand; their parsers
\* follow the field rules of the design: an absent or empty field gives
\* None, a value outside its set or range is refused.
\* the field rules MacAcl and Ipv6Acl apply to action and vlan_id
acl_parse_action(p) ==
    IF ~Present(p, "action") THEN RErr("MissingParameter")
    ELSE IF p["action"].t = "str" /\ p["action"].v \in {s_permit, s_deny}
    THEN RStr(p["action"].v)
    ELSE RErr("InvalidValue")

acl_parse_vlan(p) ==
    IF ~Present(p, "vlan_id") THEN RNone
    ELSE LET vlan == p["vlan_id"]
         IN  IF vlan.t = "int" /\ vlan.v > 0 /\ vlan.v < 4096
             THEN RStr(IntToStr(vlan.v))
             ELSE IF vlan.t = "str" /\ IsDigit(vlan.v)
                     /\ StrToInt(vlan.v) > 0 /\ StrToInt(vlan.v) < 4096
             THEN RStr(vlan.v)
             ELSE RErr("InvalidValue")

\* a MAC address in the form HHHH.HHHH.HHHH
IsMacAddress(s) ==
    LET groups == SplitOn(s, ".")
    IN  /\ Len(groups) = 3
        /\ \A i \in 1..3 :
              /\ Len(groups[i]) = 4
              /\ \A j \in 1..4 : groups[i][j] \in HexDigits

\* the field rules MacAcl applies to source and dst ('any' or a MAC address)
\* and to vlan
mac_parse_address(p, key) ==
    IF ~Present(p, key) THEN RNone
    ELSE IF p[key].t = "str" /\ (p[key].v = s_any \/ IsMacAddress(p[key].v))
    THEN RStr(p[key].v)
    ELSE RErr("InvalidValue")

mac_parse_vlan(p) ==
    IF ~Present(p, "vlan") THEN RNone
    ELSE IF p["vlan"].t = "int" /\ p["vlan"].v > 0 /\ p["vlan"].v < 4096
    THEN RStr(IntToStr(p["vlan"].v))
    ELSE IF p["vlan"] = PyStr(s_any) THEN RStr(s_any)
    ELSE RErr("InvalidValue")

\* the field rules MacAcl and Ipv6Acl apply to their other fields
\* a field rendered as its own text (seq_id, ethertype, tcp_operator,
\* icmp_filter)
acl_parse_text(p, key) ==
    IF ~Present(p, key) THEN RNone ELSE RStr(PyStrOf(p[key]))

\* a switch rendered as its keyword (arp_guard, copy_sflow,
\* suppress_rpf_drop)
acl_parse_flag(p, key, keyword) ==
    IF ~Present(p, key) THEN RNone ELSE RStr(keyword)

\* a value of a fixed literal set (fragment, protocol_type)
acl_parse_enum(p, key, values) ==
    IF ~Present(p, key) THEN RNone
    ELSE IF p[key].t = "str" /\ p[key].v \in values THEN RStr(p[key].v)
    ELSE RErr("InvalidValue")

\* an integer or digit string of the closed range 0..hi, rendered after its
\* keyword; other is the field that excludes it ("" when there is none)
acl_parse_range(p, key, other, keyword, hi) ==
    IF ~Present(p, key) THEN RNone
    ELSE IF other # "" /\ Present(p, other) THEN RErr("ConflictingParameters")
    ELSE LET v == p[key]
             numeric == v.t = "int" \/ (v.t = "str" /\ IsDigit(v.v))
             n == IF v.t = "int" THEN v.v ELSE StrToInt(v.v)
         IN  IF numeric /\ n >= 0 /\ n <= hi
             THEN RStr(keyword \o SP \o PyStrOf(v))
             ELSE RErr("InvalidValue")

acl_parse_log(p) ==
    IF ~Present(p, "log") THEN RNone
    ELSE IF Present(p, "mirror") THEN RErr("ConflictingParameters")
    ELSE RStr(<<"l","o","g">>)

acl_parse_mirror(p) ==
    IF ~Present(p, "mirror") THEN RNone
    ELSE IF Present(p, "log") THEN RErr("ConflictingParameters")
    ELSE IF Present(p, "action") /\ p["action"] # PyStr(s_permit)
    THEN RErr("InvalidValue")
    ELSE RStr(<<"m","i","r","r","o","r">>)

\* the address grammar for an IPv6 source or destination: 'any', 'host <x>',
\* '<addr>/<prefixlen>' or '<addr> <mask>', each with an optional operator
\* that is valid under tcp and udp only
ipv6_parse_address(p, key) ==
    IF ~Present(p, key) THEN RNone
    ELSE IF p[key].t # "str" THEN RErr("InvalidAddress")
    ELSE LET toks == SplitWS(p[key].v)
             IsOp(t) == \E k \in 1..Len(TcpUdpOps) : TcpUdpOps[k] = t
             ops == {i \in 1..Len(toks) : IsOp(toks[i])}
             cut == IF ops = {} THEN Len(toks) + 1
                    ELSE CHOOSE i \in ops : \A j \in ops : i <= j
             addr == SubSeq(toks, 1, cut - 1)
             oper == SubSeq(toks, cut, Len(toks))
             tcp_udp == Present(p, "protocol_type")
                        /\ p["protocol_type"].v \in {s_tcp, s_udp}
             IsV6(t) == /\ Contains(t, <<":">>)
                        /\ \A i \in 1..Len(t) : t[i] \in HexDigits \cup {":"}
             prefix == IF Len(addr) = 1 THEN SplitOn(addr[1], "/") ELSE <<>>
             addr_ok == \/ addr = <<s_any>>
                        \/ Len(addr) = 2 /\ addr[1] = s_host
                        \/ /\ Len(prefix) = 2
                           /\ IsV6(prefix[1])
                           /\ IsDigit(prefix[2])
                           /\ StrToInt(prefix[2]) <= 128
                        \/ Len(addr) = 2 /\ IsV6(addr[1]) /\ IsV6(addr[2])
             oper_ok == \/ oper = <<>>
                        \/ tcp_udp /\ Len(oper) = 2 /\ oper[1] # <<"r","a","n","g","e">>
                        \/ tcp_udp /\ Len(oper) = 3 /\ oper[1] = <<"r","a","n","g","e">>
         IN  IF addr_ok /\ oper_ok THEN RStr(Join(toks, SP))
             ELSE RErr("InvalidAddress")

\* the builders of the l2 and ipv6 rules: the calls of acl.py in their
\* order, each on the parser of MacAcl (Ipv6Acl) for the field
parse_params_for_add_l2_acl_rule(p) ==
    Built(<<RStr(parse_acl_name(p)), acl_parse_text(p, "seq_id"),
            acl_parse_action(p), mac_parse_address(p, "source"),
            mac_parse_address(p, "dst"), mac_parse_vlan(p),
            acl_parse_text(p, "ethertype"),
            acl_parse_flag(p, "arp_guard", <<"a","r","p","-","g","u","a","r","d">>),
            acl_parse_range(p, "drop_precedence", "drop_precedence_force",
                            <<"d","r","o","p","-","p","r","e","c","e","d","e","n","c","e">>, 3),
            acl_parse_range(p, "drop_precedence_force", "drop_precedence",
                            <<"d","r","o","p","-","p","r","e","c","e","d","e","n","c","e","-","f","o","r","c","e">>, 3),
            acl_parse_log(p), acl_parse_mirror(p),
            acl_parse_range(p, "priority", "priority_force", <<"p","r","i","o","r","i","t","y">>, 7),
            acl_parse_range(p, "priority_force", "priority",
                            <<"p","r","i","o","r","i","t","y","-","f","o","r","c","e">>, 7),
            acl_parse_range(p, "priority_mapping", "",
                            <<"p","r","i","o","r","i","t","y","-","m","a","p","p","i","n","g">>, 7)>>)

parse_params_for_add_ipv6_extended(p) ==
    Built(<<acl_name_str(p), acl_parse_text(p, "seq_id"), acl_parse_action(p),
            acl_parse_vlan(p),
            acl_parse_enum(p, "protocol_type",
                           ProtocolNames
                           \cup {IntToStr(n) : n \in 0..255}),
            ipv6_parse_address(p, "source"),
            ipv6_parse_address(p, "destination"),
            acl_parse_range(p, "dscp", "", <<"d","s","c","p","-","m","a","p","p","i","n","g">>, 63),
            acl_parse_enum(p, "fragment", {<<"f","r","a","g","m","e","n","t">>, <<"n","o","n","-","f","r","a","g","m","e","n","t">>}),
            acl_parse_text(p, "tcp_operator"),
            acl_parse_text(p, "icmp_filter"),
            acl_parse_flag(p, "copy_sflow", <<"c","o","p","y","-","s","f","l","o","w">>),
            acl_parse_range(p, "drop_precedence", "drop_precedence_force",
                            <<"d","r","o","p","-","p","r","e","c","e","d","e","n","c","e">>, 3),
            acl_parse_range(p, "drop_precedence_force", "drop_precedence",
                            <<"d","r","o","p","-","p","r","e","c","e","d","e","n","c","e","-","f","o","r","c","e">>, 3),
            acl_parse_range(p, "dscp_marking", "", <<"d","s","c","p","-","m","a","r","k","i","n","g">>, 63),
            acl_parse_range(p, "priority_force", "", <<"p","r","i","o","r","i","t","y","-","f","o","r","c","e">>, 7),
            acl_parse_range(p, "priority_mapping", "",
                            <<"p","r","i","o","r","i","t","y","-","m","a","p","p","i","n","g">>, 7),
            acl_parse_flag(p, "suppress_rpf_drop", <<"s","u","p","p","r","e","s","s","-","r","p","f","-","d","r","o","p">>),
            acl_parse_mirror(p), acl_parse_log(p)>>)

\* a variant of add_l2_acl_rule that submits the rendered rule line as the
\* template produced it
add_l2_acl_rule_raw(p, f) ==
    IF ~validate_params("add_l2_acl_rule", p) THEN Done("MissingParameter", f)
    ELSE LET user_data == parse_params_for_add_l2_acl_rule(p)
         IN  IF ~user_data.ok THEN Done(user_data.err, f)
             ELSE Wait("exec",
                       <<create_acl_template(parse_acl_name(p)),
                         add_rule_template(user_data.frags)>>,
                       "cli-set", f)

add_l2_acl_rule(p, f) ==
    IF ~validate_params("add_l2_acl_rule", p) THEN Done("MissingParameter", f)
    ELSE LET user_data == parse_params_for_add_l2_acl_rule(p)
         IN  IF ~user_data.ok THEN Done(user_data.err, f)
             ELSE Wait("exec",
                       <<create_acl_template(parse_acl_name(p)),
                         Normalize(StripDisallowed(
                             add_rule_template(user_data.frags)))>>,
                       "cli-set", f)

add_ipv4_rule_acl(p, f) ==
    IF ~validate_params("add_ipv4_rule_acl", p) THEN Done("MissingParameter", f)
    ELSE get_acl_address_and_acl_type_query(f, "add_rule")

\* a variant of add_ipv4_rule_acl_batch that does not look at the protocol
\* the lookup returned
add_ipv4_rule_acl_batch_any_family(p, ret, f) ==
    IF ret.type \notin {s_standard, s_extended}
    THEN Done("UnsupportedAddressType", f)
    ELSE LET user_data == IF ret.type = s_standard
                          THEN parse_params_for_add_ipv4_standard(p)
                          ELSE parse_params_for_add_ipv4_extended(p)
         IN  IF ~user_data.ok THEN Done(user_data.err, f)
             ELSE Wait("exec",
                       <<<<"i","p"," ","a","c","c","e","s","s","-","l","i","s","t"," ">> \o SP \o ret.type \o SP
                           \o Text(p, "acl_name"),
                         Normalize(add_rule_template(user_data.frags))>>,
                       "cli-set", [f EXCEPT !.acl_type = ret.type])

\* add_ipv4_rule_acl once the identity of the ACL is resolved
add_ipv4_rule_acl_batch(p, ret, f) ==
    IF ret.protocol # s_ip THEN Done("UnsupportedAddressType", f)
    ELSE IF ret.type \notin {s_standard, s_extended}
    THEN Done("UnsupportedAddressType", f)
    ELSE LET user_data == IF ret.type = s_standard
                          THEN parse_params_for_add_ipv4_standard(p)
                          ELSE parse_params_for_add_ipv4_extended(p)
         IN  IF ~user_data.ok THEN Done(user_data.err, f)
             ELSE Wait("exec",
                       <<<<"i","p"," ","a","c","c","e","s","s","-","l","i","s","t"," ">> \o SP \o ret.type \o SP
                           \o Text(p, "acl_name"),
                         Normalize(add_rule_template(user_data.frags))>>,
                       "cli-set", [f EXCEPT !.acl_type = ret.type])

\* add_ipv4_rule_acl after its batch returned output
add_ipv4_rule_acl_output(p, f, output) ==
    IF Contains(output, <<"F","a","i","l","e","d"," ","t","o"," ","i","n","i","t","i","a","l","i","z","e"," ","d","n","s"," ","r","e","q","u","e","s","t">>)
    THEN Done("DnsFailure", f)
    ELSE IF Contains(output, <<"a","r","e"," ","u","n","d","e","f","i","n","e","d">>)
    THEN IF Has(p, "icmp_filter") THEN Done("UndefinedIcmpFilter", f)
         ELSE Done("KeyError", f)
    ELSE IF _process_cli_output(output) THEN Done("ok", f)
    ELSE Done("DeviceRejected", f)

add_ipv6_rule_acl(p, f) ==
    IF ~validate_params("add_ipv6_rule_acl", p) THEN Done("MissingParameter", f)
    ELSE get_acl_address_and_acl_type_query(f, "add_rule")

\* a variant of add_ipv6_rule_acl_batch that submits the enter-context
\* command before it builds the rule
add_ipv6_rule_acl_batch_eager(p, ret, f) ==
    IF ret.protocol # s_ipv6 THEN Done("UnsupportedAddressType", f)
    ELSE LET user_data == parse_params_for_add_ipv6_extended(p)
             context == <<"i","p","v","6"," ","a","c","c","e","s","s","-","l","i","s","t"," ">> \o SP \o Text(p, "acl_name")
         IN  IF ~user_data.ok
             THEN [next |-> "done", result |-> user_data.err,
                   calls |-> <<[cmds |-> <<context>>, handler |-> "cli-set"]>>,
                   frame |-> f]
             ELSE Wait("exec",
                       <<context,
                         Normalize(add_rule_template(user_data.frags))>>,
                       "cli-set", f)

\* a variant of add_ipv6_rule_acl_batch that strips the rule line the way
\* add_l2_acl_rule does
add_ipv6_rule_acl_batch_stripped(p, ret, f) ==
    IF ret.protocol # s_ipv6 THEN Done("UnsupportedAddressType", f)
    ELSE LET user_data == parse_params_for_add_ipv6_extended(p)
         IN  IF ~user_data.ok THEN Done(user_data.err, f)
             ELSE Wait("exec",
                       <<<<"i","p","v","6"," ","a","c","c","e","s","s","-","l","i","s","t"," ">> \o SP \o Text(p, "acl_name"),
                         Normalize(StripDisallowed(
                             add_rule_template(user_data.frags)))>>,
                       "cli-set", f)

\* add_ipv6_rule_acl once the identity of the ACL is resolved
add_ipv6_rule_acl_batch(p, ret, f) ==
    IF ret.protocol # s_ipv6 THEN Done("UnsupportedAddressType", f)
    ELSE LET user_data == parse_params_for_add_ipv6_extended(p)
         IN  IF ~user_data.ok THEN Done(user_data.err, f)
             ELSE Wait("exec",
                       <<<<"i","p","v","6"," ","a","c","c","e","s","s","-","l","i","s","t"," ">> \o SP \o Text(p, "acl_name"),
                         Normalize(add_rule_template(user_data.frags))>>,
                       "cli-set", f)

----------------------------------------------------------------------------
(* Continuations after get_acl_address_and_acl_type returned ret *)

AfterIdentity(o, p, f, ret) ==
    IF ret.protocol = <<>> THEN Done("AclNotFound", f)
    ELSE CASE o = "delete_acl" -> delete_acl_config(p, ret, f)
           [] o = "delete_ipv4_acl_rule" /\ f.stage = "get_acl_type" ->
                  is_valid_seq_id(Get(p, "seq_id"), Text(p, "acl_name"),
                                  [f EXCEPT !.acl_type = ret.type])
           [] IsRuleDelete(o) /\ f.stage = "get_address_type" ->
                  is_valid_seq_id_config(ret.protocol, parse_acl_name(p), f)
           [] o \in {"apply_acl", "remove_acl"} ->
                  apply_acl_checks(p, ret.protocol, f)
           [] o = "add_ipv4_rule_acl" -> add_ipv4_rule_acl_batch(p, ret, f)
           [] o = "add_ipv6_rule_acl" -> add_ipv6_rule_acl_batch(p, ret, f)

\* the final batch returned output
AfterExec(o, p, f, output) ==
    IF o = "add_ipv4_rule_acl" THEN add_ipv4_rule_acl_output(p, f, output)
    ELSE IF _process_cli_output(output) THEN Done("ok", f)
    ELSE Done("DeviceRejected", f)

----------------------------------------------------------------------------
(* Inputs *)

Ops == {"create_acl", "delete_acl", "add_l2_acl_rule", "add_ipv4_rule_acl",
        "add_ipv6_rule_acl", "delete_l2_acl_rule", "delete_ipv4_acl_rule",
        "delete_ipv6_acl_rule", "apply_acl", "remove_acl"}

IntfName(i) == <<"1","/">> \o IntToStr(i)
IntfLists == {PyList([i \in 1..n |-> IntfName(i)]) : n \in 0..MaxIntfs}
SeqIds == {PyInt(0)} \cup {PyInt(SeqNo(i)) : i \in 1..(MaxRules + 1)}

Bags(o) ==
    CASE o = "create_acl" ->
             Cross(Cross(Opt("acl_name", {PyStr(A1)}),
                         Opt("address_type",
                             {PyStr(s_mac), PyStr(s_ip), PyStr(s_ipv6), PyStr(s_l3)})),
                   Opt("acl_type", {PyStr(s_standard), PyStr(s_extended)}))
      [] o = "delete_acl" ->
             Cross(Cross(Opt("acl_name", {PyStr(A1), PyStr(A10)}),
                         Opt("address_type", {PyStr(s_ipv6)})),
                   Opt("acl_type", {PyStr(s_standard)}))
      [] IsRuleDelete(o) ->
             Cross(Opt("acl_name", {PyStr(A1)}), Opt("seq_id", SeqIds))
      [] o = "add_l2_acl_rule" ->
             Cross(Cross(Cross(Opt("acl_name", {PyStr(A1)}),
                               Opt("seq_id", {PyInt(SeqNo(1))})),
                         Cross(Opt("action", {PyStr(s_permit), PyStr(<<"a","l","l","o","w">>)}),
                               Opt("vlan", {PyInt(10), PyInt(4096)}))),
                   Cross(Cross(Opt("source", {PyStr(s_any),
                                              PyStr(<<"0","0","a","0",".","1","b","2","c",".","f","f","f","f">>),
                                              PyStr(<<"1",".","1",".","1",".","1","/","2","4">>)}),
                               Opt("dst", {PyStr(s_any)})),
                         Cross(Opt("log", {PyStr(<<"T","r","u","e">>)}),
                               Opt("priority", {PyInt(3), PyInt(9)}))))
      [] o = "add_ipv6_rule_acl" ->
             Cross(Cross(Cross(Opt("acl_name", {PyStr(A1)}),
                               Opt("seq_id", {PyInt(SeqNo(1))})),
                         Cross(Opt("action", {PyStr(s_permit), PyStr(<<"a","l","l","o","w">>)}),
                               Opt("vlan_id", {PyInt(10), PyInt(4096)}))),
                   Cross(Opt("protocol_type", {PyStr(s_tcp), PyStr(<<"i","p","v","6">>)}),
                         Opt("source", {PyStr(s_any), PyStr(<<"2","0","0","1",":","d","b","8",":",":","/","3","2">>),
                                        PyStr(<<"a","n","y"," ","e","q"," ","8","0">>),
                                        PyStr(<<"b","o","g","u","s">>)})))
      [] o = "add_ipv4_rule_acl" ->
             Cross(Cross(Cross(Opt("acl_name", {PyStr(A1)}),
                               Opt("seq_id", {PyInt(SeqNo(1))})),
                         Cross(Opt("action", {PyStr(s_permit), PyStr(<<"a","l","l","o","w">>)}),
                               Opt("source", {PyStr(s_any),
                                              PyStr(<<"1",".","1",".","1",".","1","/","2","4">>),
                                              PyStr(<<"1",".","1",".","1"," ","e","q"," ","8","0">>)}))),
                   Cross(Cross(Opt("protocol_type", {PyStr(s_tcp), PyStr(<<"6">>)}),
                               Opt("vlan_id", {PyInt(4096)})),
                         Cross(Cross(Opt("log", {PyStr(<<"T","r","u","e">>)}),
                                     Opt("mirror", {PyStr(<<"T","r","u","e">>)})),
                               Opt("acl_type", {PyStr(s_standard)}))))
      [] o \in {"apply_acl", "remove_acl"} ->
             Cross(Cross(Req("acl_name", {PyStr(A1)}),
                         Opt("intf_type",
                             {PyStr(s_ethernet), PyStr(s_ve), PyStr(s_port_channel)})),
                   Cross(Opt("intf_name", IntfLists),
                         Req("acl_direction", {PyStr(s_in)})))

Ans(status, out) == [status |-> status, out |-> out]

\* what the device may answer to a configuration batch: the status of the
\* transport call and the output text
SetAnswers(o, at) ==
    {Ans(TRUE, <<>>), Ans(TRUE, <<"E","r","r","o","r",":"," ","p","o","r","t"," ","i","n"," ","l","a","g">>),
     Ans(FALSE, <<"I","n","v","a","l","i","d"," ","i","n","p","u","t">>)}
    \cup (IF o = "create_acl"
          THEN {Ans(FALSE, <<>>), Ans(FALSE, <<"E","r","r","o","r",":"," ","o","b","j","e","c","t"," ","a","l","r","e","a","d","y"," ","e","x","i","s","t","s">>),
                Ans(TRUE, <<"E","r","r","o","r",":"," ","o","b","j","e","c","t"," ","a","l","r","e","a","d","y"," ","e","x","i","s","t","s">>)}
          ELSE {})
    \cup (IF o = "apply_acl" /\ at = "bind"
          THEN {Ans(TRUE, <<"E","r","r","o","r",":"," ","A","1"," ","i","n"," ","u","s","e">>)} ELSE {})
    \cup (IF o = "add_ipv4_rule_acl"
          THEN {Ans(TRUE, <<"F","a","i","l","e","d"," ","t","o"," ","i","n","i","t","i","a","l","i","z","e"," ","d","n","s"," ","r","e","q","u","e","s","t">>),
                Ans(TRUE, <<"i","c","m","p"," ","t","y","p","e","s"," ","a","r","e"," ","u","n","d","e","f","i","n","e","d">>)}
          ELSE {})

\* what the device may answer to a listing query
GetAnswers(text) == {Ans(TRUE, text), Ans(FALSE, <<"I","n","v","a","l","i","d"," ","i","n","p","u","t">>)}

----------------------------------------------------------------------------
(* Actions *)

Init ==
    /\ device = NoDevice
    /\ op = "none"
    /\ params = EmptyBag
    /\ pc = "idle"
    /\ sent = <<>>
    /\ replies = <<>>
    /\ result = "none"
    /\ repeat = FALSE
    /\ frame = Frame0
    /\ retval = RNone

Take(o) ==
    /\ pc' = o.next
    /\ result' = o.result
    /\ sent' = sent \o o.calls
    /\ frame' = o.frame

Handler(o, p, f) ==
    CASE o = "create_acl" -> create_acl(p, f)
      [] o = "delete_acl" -> delete_acl(p, f)
      [] o = "delete_l2_acl_rule" -> delete_l2_acl_rule(p, f)
      [] o = "delete_ipv4_acl_rule" -> delete_ipv4_acl_rule(p, f)
      [] o = "delete_ipv6_acl_rule" -> delete_ipv6_acl_rule(p, f)
      [] o \in {"apply_acl", "remove_acl"} -> apply_acl(o, p, f)
      [] o = "add_l2_acl_rule" -> add_l2_acl_rule(p, f)
      [] o = "add_ipv4_rule_acl" -> add_ipv4_rule_acl(p, f)
      [] o = "add_ipv6_rule_acl" -> add_ipv6_rule_acl(p, f)

\* a caller invokes an operation of the orchestrator
Call ==
    /\ pc = "idle"
    /\ \E o \in Ops : \E p \in Bags(o) :
          /\ op' = o
          /\ params' = p
          /\ Take(Handler(o, p, Frame0))
    /\ repeat' = FALSE
    /\ UNCHANGED <<device, replies, retval>>

\* 'show access-list all' returns
IdentAll ==
    /\ pc = "ident1"
    /\ \E d \in (IF device.known THEN {device} ELSE Devices(op)) :
       \E a \in GetAnswers(ShowAll(d)) :
          LET r == _callback_main(a.status, a.out) IN
          /\ device' = d
          /\ replies' = Append(replies, a)
          /\ IF r.raised THEN Take(Done("DeviceRejected", frame))
             ELSE Take(Wait("ident2", <<show_ipv6_access_list_all>>, "cli-get",
                            [frame EXCEPT !.res = SplitOn(r.out, "\n")]))
    /\ UNCHANGED <<op, params, repeat, retval>>

\* 'show ipv6 access-list' returns and the listing is scanned
IdentV6 ==
    /\ pc = "ident2"
    /\ \E a \in GetAnswers(ShowIpv6(device)) :
          LET r == _callback_main(a.status, a.out) IN
          /\ replies' = Append(replies, a)
          /\ IF r.raised THEN Take(Done("DeviceRejected", frame))
             ELSE LET res == frame.res \o SplitOn(r.out, "\n")
                      ret == get_acl_address_and_acl_type(res, Text(params, "acl_name"))
                  IN  Take(AfterIdentity(op, params, [frame EXCEPT !.res = res], ret))
    /\ UNCHANGED <<device, op, params, repeat, retval>>

\* the rule listing of is_valid_seq_id returns
SeqList ==
    /\ pc = "seqlist"
    /\ \E a \in GetAnswers(ShowRules(device, sent[Len(sent)].cmds[1]))
                   \cup {Ans(TRUE, <<"E","r","r","o","r",":"," ","b","u","s","y">>)} :
          LET r == _callback_main(a.status, a.out) IN
          /\ replies' = Append(replies, a)
          /\ IF r.raised \/ ~_process_cli_output(r.out)
             THEN Take(Done("DeviceRejected", frame))
             ELSE IF is_valid_seq_id_scan(r.out, Get(params, "seq_id"))
             THEN Take(delete_rule_batch(op, params, frame))
             ELSE Take(Done("SequenceNotFound", frame))
    /\ UNCHANGED <<device, op, params, repeat, retval>>

\* the interface probe of apply_acl / remove_acl returns
Probe ==
    /\ pc = "probe"
    /\ \E a \in SetAnswers(op, pc) :
          LET r == _callback_main(a.status, a.out) IN
          /\ replies' = Append(replies, a)
          /\ IF r.raised THEN Take(Done("DeviceRejected", frame))
             ELSE Take(apply_acl_probe(op, params, frame, r.out))
    /\ UNCHANGED <<device, op, params, repeat, retval>>

\* a bind batch of apply_acl returns
Bind ==
    /\ pc = "bind"
    /\ \E a \in SetAnswers(op, pc) :
          LET r == _callback_main(a.status, a.out) IN
          /\ replies' = Append(replies, a)
          /\ IF r.raised THEN Take(Done("DeviceRejected", frame))
             ELSE Take(apply_acl_bind(params, frame, r.out))
    /\ UNCHANGED <<device, op, params, repeat, retval>>

\* the last batch of an operation returns
Exec ==
    /\ pc = "exec"
    /\ \E a \in SetAnswers(op, pc) :
          LET r == _callback_main(a.status, a.out) IN
          /\ replies' = Append(replies, a)
          /\ IF r.raised THEN Take(Done("DeviceRejected", frame))
             ELSE Take(AfterExec(op, params, frame, r.out))
    /\ UNCHANGED <<device, op, params, repeat, retval>>

\* the caller repeats a successful create_acl with identical parameters
CreateAgain ==
    /\ pc = "done"
    /\ op = "create_acl"
    /\ result = "ok"
    /\ ~repeat
    /\ repeat' = TRUE
    /\ replies' = <<>>
    /\ pc' = "exec"
    /\ result' = "none"
    /\ sent' = create_acl(params, Frame0).calls
    /\ frame' = Frame0
    /\ UNCHANGED <<device, op, params, retval>>

\* the call has returned or raised; the session is free for the next call
Return ==
    /\ pc = "done"
    /\ device' = NoDevice
    /\ op' = "none"
    /\ params' = EmptyBag
    /\ pc' = "idle"
    /\ sent' = <<>>
    /\ replies' = <<>>
    /\ result' = "none"
    /\ repeat' = FALSE
    /\ frame' = Frame0
    /\ retval' = retval

Next ==
    \/ Call
    \/ IdentAll
    \/ IdentV6
    \/ SeqList
    \/ Probe
    \/ Bind
    \/ Exec
    \/ CreateAgain
    \/ Return

Spec == Init /\ [][Next]_vars

----------------------------------------------------------------------------
(* The field parsers and the rule builder on their own: a caller hands a    *)
(* parameter bag to one parser of IpAcl, or to add_ipv4_rule_acl at the     *)
(* point where the ACL is known to be an extended IPv4 ACL.                 *)

\* the largest vlan_id handed to parse_vlan
MaxVlan == 4097
\* the largest protocol number handed to parse_protocol as a digit string
MaxProtocol == 257
\* the largest value handed to parse_priority / parse_priority_force
MaxPriority == 8
\* the largest number handed as a digit string to the dscp and the
\* drop-precedence parsers
MaxDscp == 64

FieldParsers ==
    {"parse_protocol", "parse_vlan", "parse_priority", "parse_priority_force",
     "parse_log", "parse_mirror", "parse_option", "parse_source",
     "parse_destination", "parse_action", "parse_dscp_mapping",
     "parse_dscp_marking", "parse_fragment", "parse_precedence",
     "parse_established", "parse_suppress_rpf_drop", "parse_priority_mapping",
     "parse_tos", "parse_drop_precedence", "parse_drop_precedence_force"}

FieldParser(f, p) ==
    CASE f = "parse_protocol" -> parse_protocol(p)
      [] f = "parse_vlan" -> parse_vlan(p)
      [] f = "parse_priority" -> parse_priority(p)
      [] f = "parse_priority_force" -> parse_priority_force(p)
      [] f = "parse_log" -> parse_log(p)
      [] f = "parse_mirror" -> parse_mirror(p)
      [] f = "parse_option" -> parse_option(p)
      [] f = "parse_source" -> parse_source(p)
      [] f = "parse_destination" -> parse_destination(p)
      [] f = "parse_action" -> parse_action(p)
      [] f = "parse_dscp_mapping" -> parse_dscp_mapping(p)
      [] f = "parse_dscp_marking" -> parse_dscp_marking(p)
      [] f = "parse_fragment" -> parse_fragment(p)
      [] f = "parse_precedence" -> parse_precedence(p)
      [] f = "parse_established" -> parse_established(p)
      [] f = "parse_suppress_rpf_drop" -> parse_suppress_rpf_drop(p)
      [] f = "parse_priority_mapping" -> parse_priority_mapping(p)
      [] f = "parse_tos" -> parse_tos(p)
      [] f = "parse_drop_precedence" -> parse_drop_precedence(p)
      [] f = "parse_drop_precedence_force" -> parse_drop_precedence_force(p)

\* the bags of parse_source and parse_destination
AddressBags ==
    LET AddressInputs ==
            {PyStr(<<>>), PyStr(s_any), PyStr(<<"a","n","y"," ","e","q"," ","8","0">>), PyStr(<<"a","n","y"," ","r","a","n","g","e"," ","1"," ","9">>),
             PyStr(<<"a","n","y"," ","l","t"," ","h","t","t","p">>), PyStr(<<"h","o","s","t"," ","1",".","1",".","1",".","1">>), PyStr(<<"h","o","s","t"," ","w","e","b","1">>),
             PyStr(<<"h","o","s","t"," ","g","t","w">>), PyStr(<<"h","o","s","t"," ","w","e","b","1"," ","n","e","q"," ","8","0">>),
             PyStr(<<"1",".","1",".","1",".","1","/","2","4">>), PyStr(<<"1",".","1",".","1",".","1","/","2","4"," ","e","q"," ","8","0">>),
             PyStr(<<"1",".","1",".","1",".","1"," ","0",".","0",".","0",".","2","5","5">>), PyStr(<<"1",".","1",".","1",".","1"," ","0",".","0",".","0",".","2","5","5"," ","g","t"," ","8","0">>),
             PyStr(<<"1",".","1",".","1",".","1",".","1","/","2","4">>), PyStr(<<"1",".","1",".","1",".","1","/","3","3">>), PyStr(<<"1",".","1",".","1",".","1","/","x">>),
             PyStr(<<"1",".","1","/","2","4">>), PyStr(<<"1",".","1",".","1",".","9","9","9","/","2","4">>), PyStr(<<"1",".","1",".","1",".","1"," ","2","5","5">>),
             PyStr(<<"1",".","1",".","1",".","1"," ","0",".","0",".","0",".","2","5","6">>)}
    IN  Cross(Opt("protocol_type", {PyStr(s_tcp), PyStr(s_udp), PyStr(s_ip),
                                    PyStr(<<"6">>)}),
              Cross(Opt("source", AddressInputs),
                    Opt("destination", AddressInputs)))

\* the bags a caller hands to the parser f
\* (digit strings come with the empty string and two values that are no
\* numbers)
FieldBags(f) ==
    LET FlagInputs == {PyStr(<<>>), PyStr(<<"T","r","u","e">>)}
        ActionInputs == {PyStr(s_permit), PyStr(s_deny)}
        DigitInputs ==
            {PyStr(IntToStr(n)) : n \in 0..MaxDscp}
            \cup {PyStr(<<>>), PyStr(<<"x">>), PyStr(<<"-","1">>)}
        PrecedenceInputs ==
            {PyStr(IntToStr(n)) : n \in 0..MaxPriority}
            \cup {PyStr(s) : s \in PrecedenceNames}
            \cup {PyStr(<<>>), PyStr(<<"c","r","i","t","i","c","a","l">>), PyStr(<<"f","l","a","s","h">>),
                  PyStr(<<"b","o","g","u","s">>)}
    IN
    CASE f = "parse_protocol" ->
             Opt("protocol_type",
                 {PyStr(IntToStr(n)) : n \in 0..MaxProtocol}
                 \cup {PyStr(s) : s \in ProtocolNames}
                 \cup {PyStr(<<>>), PyStr(<<"b","o","g","u","s">>), PyStr(<<"T","C","P">>),
                       PyStr(<<"0","0","7">>)})
      [] f = "parse_vlan" ->
             Opt("vlan_id", {PyInt(n) : n \in (0 - 2)..MaxVlan})
      [] f \in {"parse_priority", "parse_priority_force"} ->
             Cross(Opt("priority", {PyInt(n) : n \in (0 - 1)..MaxPriority}),
                   Opt("priority_force",
                       {PyInt(n) : n \in (0 - 1)..MaxPriority}))
      [] f \in {"parse_log", "parse_mirror"} ->
             Cross(Cross(Opt("log", FlagInputs), Opt("mirror", FlagInputs)),
                   Opt("action", ActionInputs))
      [] f = "parse_option" ->
             Cross(Opt("option", {PyStr(<<>>), PyStr(s_any), PyStr(<<"7">>),
                                  PyStr(<<"3","0","0">>), PyStr(<<"b","o","g","u","s">>)}),
                   AddressBags)
      [] f \in {"parse_source", "parse_destination"} -> AddressBags
      [] f = "parse_action" ->
             Opt("action", ActionInputs \cup {PyStr(<<>>), PyStr(<<"a","l","l","o","w">>)})
      [] f = "parse_dscp_mapping" -> Opt("dscp", DigitInputs)
      [] f = "parse_dscp_marking" -> Opt("dscp_marking", DigitInputs)
      [] f = "parse_fragment" ->
             Opt("fragment", {PyStr(<<>>), PyStr(<<"f","r","a","g","m","e","n","t">>),
                              PyStr(<<"n","o","n","-","f","r","a","g","m","e","n","t">>), PyStr(<<"b","o","g","u","s">>)})
      [] f = "parse_precedence" -> Opt("precedence", PrecedenceInputs)
      [] f = "parse_established" -> Opt("established", FlagInputs)
      [] f = "parse_suppress_rpf_drop" -> Opt("suppress_rpf_drop", FlagInputs)
      [] f = "parse_priority_mapping" ->
             Opt("priority_mapping",
                 {PyInt(n) : n \in (0 - 1)..MaxPriority})
      [] f = "parse_tos" ->
             Opt("tos", {PyInt(n) : n \in (0 - 1)..(MaxPriority + 8)})
      [] f \in {"parse_drop_precedence", "parse_drop_precedence_force"} ->
             Cross(Opt("drop_precedence", DigitInputs),
                   Opt("drop_precedence_force",
                       {PyStr(<<>>), PyStr(<<"0">>), PyStr(<<"2">>),
                        PyStr(<<"7">>)}))

\* the bags of a rule for an extended IPv4 ACL
RuleBags ==
    LET FlagInputs == {PyStr(<<>>), PyStr(<<"T","r","u","e">>)}
        ActionInputs == {PyStr(s_permit), PyStr(s_deny)}
    IN
    Cross(Cross(Cross(Opt("acl_name", {PyStr(A1)}),
                      Opt("action", ActionInputs)),
                Cross(Req("protocol_type", {PyStr(s_tcp), PyStr(s_ip)}),
                      Req("source", {PyStr(s_any), PyStr(<<"a","n","y"," ","e","q"," ","8","0">>)}))),
          Cross(Cross(Opt("priority", {PyInt(0), PyInt(3), PyInt(9)}),
                      Opt("priority_force", {PyInt(0), PyInt(3), PyInt(9)})),
                Cross(Cross(Opt("log", FlagInputs), Opt("mirror", FlagInputs)),
                      Cross(Opt("drop_precedence",
                                {PyStr(<<"1">>), PyStr(<<"9">>)}),
                            Opt("drop_precedence_force", {PyStr(<<"2">>)})))))

ParserInit ==
    /\ device = NoDevice
    /\ pc = "idle"
    /\ sent = <<>>
    /\ replies = <<>>
    /\ result = "none"
    /\ repeat = FALSE
    /\ frame = Frame0
    /\ retval = RNone
    /\ \/ op \in FieldParsers /\ params \in FieldBags(op)
       \/ op = "add_ipv4_rule_acl" /\ params \in RuleBags

\* one field parser of IpAcl is applied to the bag
ParseField ==
    /\ pc = "idle"
    /\ op \in FieldParsers
    /\ retval' = FieldParser(op, params)
    /\ result' = IF retval'.k = "err" THEN retval'.e ELSE "ok"
    /\ pc' = "done"
    /\ UNCHANGED <<device, op, params, sent, replies, repeat, frame>>

\* add_ipv4_rule_acl builds and submits the rule of an extended IPv4 ACL
BuildRule ==
    /\ pc = "idle"
    /\ op = "add_ipv4_rule_acl"
    /\ Take(add_ipv4_rule_acl_batch(
                params, [protocol |-> s_ip, type |-> s_extended], frame))
    /\ UNCHANGED <<device, op, params, replies, repeat, retval>>

ParserNext ==
    \/ ParseField
    \/ BuildRule

ParserSpec == ParserInit /\ [][ParserNext]_vars
----------------------------------------------------------------------------
(* Observations on the trace of one call.  replies[i] is the answer of the  *)
(* executor to sent[i].                                                     *)

IsSet(i) == sent[i].handler = "cli-set"
SetCalls == {i \in 1..Len(sent) : IsSet(i)}
Name == Text(params, "acl_name")
NIntf == Len(IntfList(params))

\* the ACLs of the device in the order the two listings present them
Listing ==
    SelectSeq(device.acls, IsV4OrMacEntry) \o SelectSeq(device.acls, IsV6Entry)
\* the listing lines that contain the name the caller passed
Matching == {i \in 1..Len(Listing) : Contains(AclLine(Listing[i]), Name)}
FirstMatch == Listing[CHOOSE i \in Matching : \A j \in Matching : i <= j]
\* the ACLs whose name is the name the caller passed
Exact == {i \in 1..Len(Listing) : Listing[i].name = Name}

IdentityQuery(i) ==
    sent[i] = [cmds |-> <<IF i % 2 = 1 THEN show_access_list_all
                          ELSE show_ipv6_access_list_all>>,
               handler |-> "cli-get"]
\* both listing queries of the first lookup returned the device's listings
IdentityAnswered ==
    /\ Len(replies) >= 2
    /\ IdentityQuery(1) /\ replies[1] = Ans(TRUE, ShowAll(device))
    /\ IdentityQuery(2) /\ replies[2] = Ans(TRUE, ShowIpv6(device))

\* the interface-context command of the k-th interface of the list
IntfCmd(k) == <<"i","n","t","e","r","f","a","c","e"," ">> \o Text(params, "intf_type") \o SP
                  \o IntfList(params)[k]
IsProbe(i) == IsSet(i) /\ Len(sent[i].cmds) = 1
IsMutation(i) == IsSet(i) /\ Len(sent[i].cmds) > 1
Accepted(a) == a.status /\ ~Contains(a.out, ErrorMarker)
AlreadyBound(a) ==
    a.status /\ Contains(a.out, <<"E","r","r","o","r",":"," ">>) /\ Contains(a.out, Name)
Rejected(a) == ~Accepted(a) /\ ~AlreadyBound(a) /\ a.out # <<>>

----------------------------------------------------------------------------
(* C1 *)

RuleListings ==
    {i \in 1..Len(replies) :
        /\ sent[i].handler = "cli-get"
        /\ sent[i].cmds[1] \notin {show_access_list_all,
                                   show_ipv6_access_list_all}}
RuleListed(i) == replies[i] = Ans(TRUE, ShowRules(device, sent[i].cmds[1]))
SeqInListing ==
    \E k \in 1..Len(device.rules) : Get(params, "seq_id") = PyInt(device.rules[k])

\* C1: in the three rule-delete operations a 'cli-set' batch is sent only
\* right after the rule listing of the ACL was fetched and holds the
\* requested sequence number, and when the fetched listing does not hold
\* it the call fails with the sequence-not-found error and no 'cli-set'
\* batch was sent
C1_SequenceCheckedBeforeDelete ==
    IsRuleDelete(op) =>
        /\ \A j \in SetCalls :
              /\ (j - 1) \in RuleListings
              /\ RuleListed(j - 1)
              /\ SeqInListing
        /\ \A i \in RuleListings :
              (RuleListed(i) /\ ~SeqInListing) =>
                  /\ pc = "done"
                  /\ result = "SequenceNotFound"
                  /\ SetCalls = {}

C1_Witness ==
    /\ op = "delete_ipv4_acl_rule"
    /\ pc = "done"
    /\ result = "SequenceNotFound"
    /\ Len(device.rules) = MaxRules
    /\ RuleListings # {}
    /\ \A i \in RuleListings : RuleListed(i)

----------------------------------------------------------------------------
(* C2 *)

PortChannelCall ==
    /\ op \in {"apply_acl", "remove_acl"}
    /\ Text(params, "intf_type") = s_port_channel
    /\ IntfList(params) # <<>>
    /\ pc = "done"

\* C2 as stated: apply_acl / remove_acl with intf_type 'port_channel' and a
\* non-empty interface list fails with the unsupported-interface-type
\* error whatever the ACL name, and no probe or bind was sent
C2_PortChannelAlwaysUnsupported ==
    (PortChannelCall /\ IdentityAnswered) =>
        /\ result = "UnsupportedInterfaceType"
        /\ SetCalls = {}

\* C2 amended: apply_acl / remove_acl with intf_type 'port_channel' and a
\* non-empty interface list always fails without a probe or bind sent; the
\* error is unsupported-interface-type when the two listing queries
\* succeed and a listing line contains the ACL name, ACL-not-found when
\* they succeed and no line contains it, and the executor's error when a
\* listing query fails
C2_PortChannelRejected ==
    PortChannelCall =>
        /\ SetCalls = {}
        /\ (IdentityAnswered /\ Matching # {}) =>
               result = "UnsupportedInterfaceType"
        /\ (IdentityAnswered /\ Matching = {}) => result = "AclNotFound"
        /\ ~IdentityAnswered => result = "DeviceRejected"

C2_Witness ==
    /\ PortChannelCall
    /\ op = "apply_acl"
    /\ IdentityAnswered
    /\ Matching # {}
    /\ FirstMatch.protocol = s_ip
    /\ result = "UnsupportedInterfaceType"
    /\ Len(sent) = 2

----------------------------------------------------------------------------
(* C3 *)

FieldErrors ==
    {"MissingParameter", "InvalidValue", "InvalidAddress",
     "ConflictingParameters"}
\* the errors the validators, the checks of the orchestrator and the field
\* parsers raise on the parameters of a call
ValidationErrors ==
    FieldErrors \cup {"UnsupportedAddressType", "UnsupportedInterfaceType"}

\* C3 as stated: when a call fails with a missing, invalid or conflicting
\* field, no command of any kind was passed to the executor
C3_NoCommandBeforeFieldError ==
    (pc = "done" /\ result \in FieldErrors) => sent = <<>>

\* C3 amended: when a call fails with a validation error, no 'cli-set'
\* command was passed to the executor; only the listing queries of the ACL
\* lookup may have been
C3_NoMutationBeforeFieldError ==
    (pc = "done" /\ result \in ValidationErrors) =>
        \A i \in 1..Len(sent) : IdentityQuery(i)

C3_Witness ==
    /\ op = "add_ipv6_rule_acl"
    /\ pc = "done"
    /\ result = "InvalidValue"
    /\ IdentityAnswered
    /\ Len(sent) = 2

----------------------------------------------------------------------------
(* C4 *)

LastReply == replies[Len(replies)]

\* C4: a create_acl whose answer carries 'object already exists' returns
\* success, on a first call and on a repeated call with the same
\* parameters; a failed call with any other non-empty output raises
C4_CreateAclIdempotent ==
    (op = "create_acl" /\ pc = "done" /\ replies # <<>>) =>
        /\ Contains(LastReply.out, <<"o","b","j","e","c","t"," ","a","l","r","e","a","d","y"," ","e","x","i","s","t","s">>) => result = "ok"
        /\ (/\ ~LastReply.status
            /\ LastReply.out # <<>>
            /\ ~Contains(LastReply.out, <<"o","b","j","e","c","t"," ","a","l","r","e","a","d","y"," ","e","x","i","s","t","s">>)) =>
               result = "DeviceRejected"

C4_Witness ==
    /\ op = "create_acl"
    /\ repeat
    /\ pc = "done"
    /\ result = "ok"
    /\ replies = <<Ans(FALSE, <<"E","r","r","o","r",":"," ","o","b","j","e","c","t"," ","a","l","r","e","a","d","y"," ","e","x","i","s","t","s">>)>>

----------------------------------------------------------------------------
(* C5 *)

\* the delete command of the ACL the first matching listing line describes
DeleteCommandOf(e) ==
    IF e.protocol = s_ip
    THEN <<"n","o"," ","i","p"," ","a","c","c","e","s","s","-","l","i","s","t"," ">> \o e.type \o SP \o Name
    ELSE <<"n","o"," ">> \o e.protocol \o <<" ","a","c","c","e","s","s","-","l","i","s","t"," ">> \o Name

\* C5: delete_acl sends its command only as the third call, after both
\* listing queries returned, with the protocol and type of the listing
\* line that resolved the name and not those the caller passed; when no
\* listing line contains the name the call fails and no 'cli-set' command
\* was sent
C5_DeleteAclResolvesIdentity ==
    op = "delete_acl" =>
        /\ \A j \in SetCalls :
              /\ j = 3
              /\ IdentityAnswered
              /\ Matching # {}
              /\ sent[j].cmds = <<DeleteCommandOf(FirstMatch)>>
        /\ (pc = "done" /\ IdentityAnswered /\ Matching = {}) =>
               (result = "AclNotFound" /\ SetCalls = {})

C5_Witness ==
    /\ op = "delete_acl"
    /\ pc = "done"
    /\ result = "ok"
    /\ Text(params, "address_type") = s_ipv6
    /\ Text(params, "acl_type") = s_standard
    /\ Matching # {}
    /\ FirstMatch.protocol = s_ip
    /\ FirstMatch.type = s_extended
    /\ SetCalls = {3}

----------------------------------------------------------------------------
(* C6 *)

FamilyOf(o) ==
    CASE o = "delete_ipv4_acl_rule" -> s_ip
      [] o = "delete_ipv6_acl_rule" -> s_ipv6
      [] o = "delete_l2_acl_rule" -> s_mac

\* C6: a rule-delete operation sends its 'cli-set' batch only when the
\* named ACL resolves on the device to the protocol of the operation
C6_DeleteConfirmsProtocol ==
    IsRuleDelete(op) =>
        \A j \in SetCalls :
            /\ Matching # {}
            /\ FirstMatch.protocol = FamilyOf(op)

----------------------------------------------------------------------------
(* C7 *)

\* C7: in apply_acl and remove_acl a bind/unbind batch is sent only after
\* the probe of every interface of the list was sent and accepted, and once
\* a probe is rejected the call has failed with no bind/unbind batch sent
C7_ProbesBeforeMutation ==
    op \in {"apply_acl", "remove_acl"} =>
        /\ \A j \in 1..Len(sent) :
              IsMutation(j) =>
                  \A k \in 1..NIntf :
                      /\ 2 + k < j
                      /\ IsProbe(2 + k)
                      /\ sent[2 + k].cmds = <<IntfCmd(k)>>
                      /\ Accepted(replies[2 + k])
        /\ \A i \in 1..Len(replies) :
              (IsProbe(i) /\ ~Accepted(replies[i])) =>
                  /\ pc = "done"
                  /\ result = "DeviceRejected"
                  /\ \A j \in 1..Len(sent) : ~IsMutation(j)

C7_Witness ==
    /\ op = "apply_acl"
    /\ NIntf = MaxIntfs
    /\ pc = "bind"
    /\ Len(sent) = 3 + NIntf
    /\ IsMutation(Len(sent))

----------------------------------------------------------------------------
(* C8 *)

\* C8: when the output of an interface's bind batch in apply_acl carries
\* 'Error: ' and the ACL name, the bind batch of the next interface is
\* sent, and after the last interface the call returns success
C8_AlreadyBoundTolerated ==
    op = "apply_acl" =>
        \A i \in 1..Len(replies) :
            (IsMutation(i) /\ AlreadyBound(replies[i])) =>
                IF i = 2 + 2 * NIntf
                THEN pc = "done" /\ result = "ok"
                ELSE /\ Len(sent) > i
                     /\ IsMutation(i + 1)
                     /\ sent[i + 1].cmds[1] = IntfCmd(i - 1 - NIntf)

C8_Witness ==
    /\ op = "apply_acl"
    /\ NIntf = MaxIntfs
    /\ pc = "done"
    /\ result = "ok"
    /\ AlreadyBound(replies[3 + NIntf])
    /\ AlreadyBound(replies[2 + 2 * NIntf])

----------------------------------------------------------------------------
(* C9 *)

\* the three commands that bind (word = '') or unbind (word = 'no ') the
\* ACL on the k-th interface
IntfBatch(word, k) ==
    <<IntfCmd(k),
      word \o FirstMatch.protocol \o <<" ","a","c","c","e","s","s","-","g","r","o","u","p"," ">> \o Name \o SP
          \o Text(params, "acl_direction"),
      s_exit>>

RECURSIVE AllIntfBatches(_, _)
AllIntfBatches(word, k) ==
    IF k > NIntf THEN <<>>
    ELSE IntfBatch(word, k) \o AllIntfBatches(word, k + 1)

\* a rejected batch ends the call: it fails and nothing is sent after it
RejectionEndsCall ==
    \A i \in 1..Len(replies) :
        (IsMutation(i) /\ Rejected(replies[i])) =>
            /\ pc = "done"
            /\ result = "DeviceRejected"
            /\ Len(sent) = i

\* C9 as stated: apply_acl and remove_acl submit the bind/unbind of each
\* interface as its own batch in list order, and a rejected batch ends the
\* call with no later batch and no rollback
C9_OwnBatchPerInterface ==
    op \in {"apply_acl", "remove_acl"} =>
        /\ \A j \in 1..Len(sent) :
              IsMutation(j) =>
                  /\ (j - 2 - NIntf) \in 1..NIntf
                  /\ sent[j].cmds =
                         IntfBatch(IF op = "apply_acl" THEN <<>> ELSE <<"n","o"," ">>,
                                   j - 2 - NIntf)
        /\ RejectionEndsCall

\* C9 amended: apply_acl submits the bind of each interface as its own
\* batch in list order; remove_acl submits the unbind commands of all
\* interfaces, in list order, as one batch after the probes; in both a
\* rejected batch ends the call with a failure, nothing is sent after it
\* and no rollback command is sent
C9_NonAtomic ==
    /\ op = "apply_acl" =>
          \A j \in 1..Len(sent) :
              IsMutation(j) =>
                  /\ (j - 2 - NIntf) \in 1..NIntf
                  /\ sent[j].cmds = IntfBatch(<<>>, j - 2 - NIntf)
    /\ op = "remove_acl" =>
          \A j \in 1..Len(sent) :
              IsMutation(j) =>
                  /\ j = 3 + NIntf
                  /\ sent[j].cmds = AllIntfBatches(<<"n","o"," ">>, 1)
    /\ op \in {"apply_acl", "remove_acl"} => RejectionEndsCall

C9_Witness ==
    /\ op = "apply_acl"
    /\ NIntf = MaxIntfs
    /\ pc = "done"
    /\ result = "DeviceRejected"
    /\ Len(sent) = 3 + NIntf
    /\ Accepted(replies[2 + NIntf])
    /\ Rejected(replies[3 + NIntf])

----------------------------------------------------------------------------
(* C10 *)

\* C10: once both listing queries returned, the lookup fails with the
\* ACL-not-found error exactly when the listings hold no ACL of the name
\* asked for
C10_NotFoundIffNotListed ==
    (IdentityAnswered /\ Len(replies) = 2 /\ Name # <<>>) =>
        ((pc = "done" /\ result = "AclNotFound") <=> Exact = {})

----------------------------------------------------------------------------
(* C11 *)

\* the lines of the text t whose part before ':' is the decimal form of n
NumberedLines(t, n) ==
    LET lines == SplitOn(t, "\n")
    IN  {k \in 1..Len(lines) :
            LET head == Normalize(SplitOn(lines[k], ":")[1])
            IN  IsDigit(head) /\ StrToInt(head) = n}

\* is_valid_seq_id obtained the rule listing: the executor returned it and
\* the output check let it pass
ListingObtained(i) == i \in RuleListings /\ Accepted(replies[i])
\* is_valid_seq_id returned True: the operation went on to its batch
SeqIdValid(i) == Len(sent) > i /\ IsSet(i + 1)
SeqIdNotFound == pc = "done" /\ result = "SequenceNotFound" /\ SetCalls = {}
SeqIdMatches(i) ==
    Cardinality(NumberedLines(replies[i].out, Get(params, "seq_id").v))

\* C11 (as stated): once the rule listing is obtained, is_valid_seq_id
\* succeeds if and only if the requested sequence number matches exactly
\* one line of the listing, and fails with the sequence-not-found error in
\* every other case
C11_ValidIffExactlyOneLine ==
    IsRuleDelete(op) =>
        \A i \in 1..Len(replies) :
            ListingObtained(i) =>
                /\ SeqIdValid(i) <=> (SeqIdMatches(i) = 1)
                /\ ~SeqIdValid(i) => SeqIdNotFound

\* C11 (amended): once the rule listing is obtained, is_valid_seq_id
\* succeeds if and only if the requested sequence number matches at least
\* one line of the listing (it returns at the first matching line), and
\* fails with the sequence-not-found error when no line matches
C11_ValidIffSomeLine ==
    IsRuleDelete(op) =>
        \A i \in 1..Len(replies) :
            ListingObtained(i) =>
                /\ SeqIdValid(i) <=> (SeqIdMatches(i) >= 1)
                /\ ~SeqIdValid(i) => SeqIdNotFound

C11_Witness ==
    /\ op = "delete_l2_acl_rule"
    /\ \E i \in 1..Len(replies) :
          /\ ListingObtained(i)
          /\ SeqIdMatches(i) = 2
          /\ SeqIdValid(i)

----------------------------------------------------------------------------
(* C15 *)

L2Keys == <<"seq_id", "action", "source", "dst", "vlan">>
NonEmpty(s) == s # <<>>
\* the values of the rule fields the caller supplied, in template order
L2Tokens ==
    SelectSeq([i \in 1..Len(L2Keys) |-> Render(Get(params, L2Keys[i]))]
              \o <<IF Present(params, "log") THEN <<"l","o","g">> ELSE <<>>,
                   IF Present(params, "priority")
                   THEN <<"p","r","i","o","r","i","t","y"," ">> \o Render(Get(params, "priority"))
                   ELSE <<>> >>,
              NonEmpty)
L2Valid ==
    /\ Present(params, "acl_name")
    /\ Get(params, "action") \in {PyStr(s_permit), PyStr(s_deny)}
    /\ Get(params, "source") \in {NoneV, PyStr(s_any), PyStr(<<"0","0","a","0",".","1","b","2","c",".","f","f","f","f">>)}
    /\ Get(params, "vlan") \in {NoneV, PyInt(10)}
    /\ Get(params, "priority") \in {NoneV, PyInt(3)}
AllowedChars ==
    {Digits[i] : i \in 1..Len(Digits)} \cup Letters \cup {" ", ".", "-"}
OnlyAllowed(s) == \A i \in 1..Len(s) : s[i] \in AllowedChars
SingleSpaced(s) ==
    /\ s # <<>> => (s[1] # " " /\ s[Len(s)] # " ")
    /\ \A i \in 1..(Len(s) - 1) : ~(s[i] = " " /\ s[i + 1] = " ")
PermitAnyAny10 ==
    [acl_name |-> PyStr(A1), action |-> PyStr(s_permit),
     source |-> PyStr(s_any), dst |-> PyStr(s_any), vlan |-> PyInt(10)]

\* C15: for valid parameters add_l2_acl_rule submits exactly one 'cli-set'
\* batch of two commands, the enter-context command of acl_name and then
\* the rule line; the rule line is the supplied fragments as tokens
\* separated by single spaces ('permit any any 10' for action permit,
\* source any, dst any, vlan 10) and holds only letters, digits, single
\* spaces, dots and hyphens
C15_L2RuleBatch ==
    op = "add_l2_acl_rule" =>
        /\ L2Valid => Len(sent) = 1
        /\ sent # <<>> =>
              /\ Len(sent) = 1
              /\ sent[1].handler = "cli-set"
              /\ sent[1].cmds = <<<<"m","a","c"," ","a","c","c","e","s","s","-","l","i","s","t"," ">> \o Name, Join(L2Tokens, SP)>>
              /\ OnlyAllowed(sent[1].cmds[2])
              /\ SingleSpaced(sent[1].cmds[2])
        /\ params = PermitAnyAny10 =>
              sent[1].cmds[2] = <<"p","e","r","m","i","t"," ","a","n","y"," ","a","n","y"," ","1","0">>

C15_Witness ==
    /\ op = "add_l2_acl_rule"
    /\ params = PermitAnyAny10
    /\ pc = "done"
    /\ result = "ok"
    /\ sent[1].cmds = <<<<"m","a","c"," ","a","c","c","e","s","s","-","l","i","s","t"," ","A","1">>, <<"p","e","r","m","i","t"," ","a","n","y"," ","a","n","y"," ","1","0">>>>

----------------------------------------------------------------------------
(* C20 *)

IsRuleOp(o) ==
    IsRuleDelete(o)
    \/ o \in {"add_l2_acl_rule", "add_ipv4_rule_acl", "add_ipv6_rule_acl"}
\* the rule-body line of a batch: the command after the enter-context command
RuleLineOf(i) == sent[i].cmds[2]

\* C20 (as stated): every rule-body line a rule operation passes to the
\* executor has had every character outside [A-Za-z0-9 .-] removed, so no
\* such line holds another character
C20_RuleLinesStripped ==
    IsRuleOp(op) => \A i \in SetCalls : OnlyAllowed(RuleLineOf(i))

\* C20 (amended): the rule-body lines of add_l2_acl_rule and of the three
\* delete-by-sequence operations have had every character outside
\* [A-Za-z0-9 .-] removed before whitespace collapsing; the rule-body lines
\* of add_ipv4_rule_acl and add_ipv6_rule_acl are whitespace-collapsed
\* only, so a source value reaches the executor with all its characters
\* (the '/' of a prefix included)
C20_StrippedByL2AndDelete ==
    IsRuleOp(op) =>
        \A i \in SetCalls :
            /\ SingleSpaced(RuleLineOf(i))
            /\ IF op \in {"add_ipv4_rule_acl", "add_ipv6_rule_acl"}
               THEN Present(params, "source") =>
                        Contains(RuleLineOf(i), Normalize(Text(params, "source")))
               ELSE OnlyAllowed(RuleLineOf(i))

C20_Witness ==
    /\ op = "add_ipv6_rule_acl"
    /\ Text(params, "source") = <<"2","0","0","1",":","d","b","8",":",":","/","3","2">>
    /\ SetCalls # {}
    /\ \A i \in SetCalls : Contains(RuleLineOf(i), <<"/">>)

----------------------------------------------------------------------------
(* C12 *)

Parsed(f) == op = f /\ pc = "done"
Value(k) == params[k].v

\* C12 (as stated): parse_protocol returns every digit string in 0..255 and
\* every protocol keyword of its list unchanged, and fails for every digit
\* string above 255 and every other non-empty string
C12_ProtocolNumbersAndNames ==
    (Parsed("parse_protocol") /\ Present(params, "protocol_type")) =>
        IF \/ IsDigit(Value("protocol_type"))
                /\ StrToInt(Value("protocol_type")) <= 255
           \/ Value("protocol_type") \in ProtocolNames
        THEN retval = RStr(Value("protocol_type"))
        ELSE retval.k = "err"

----------------------------------------------------------------------------
(* C13 *)

InVlanRange(n) == n >= 1 /\ n <= 4095

\* C13 (as stated): for every integer vlan_id in the bag, parse_vlan fails
\* with the invalid-value error when vlan_id is outside 1..4095, 0 included,
\* and returns the decimal string of vlan_id when it is inside
C13_VlanOutsideRangeFails ==
    (Parsed("parse_vlan") /\ Has(params, "vlan_id")) =>
        IF InVlanRange(Value("vlan_id"))
        THEN retval = RStr(IntToStr(Value("vlan_id")))
        ELSE retval = RErr("InvalidValue")

\* C13 (amended): for every integer vlan_id in the bag, parse_vlan returns
\* the decimal string of vlan_id when it is in 1..4095, returns absent
\* (None) without an error when vlan_id is 0, and fails with the
\* invalid-value error for every other integer (negatives, 4096 and above)
C13_VlanRange ==
    (Parsed("parse_vlan") /\ Has(params, "vlan_id")) =>
        IF InVlanRange(Value("vlan_id"))
        THEN retval = RStr(IntToStr(Value("vlan_id")))
        ELSE IF Value("vlan_id") = 0
        THEN retval = RNone
        ELSE retval = RErr("InvalidValue")

C13_Witness ==
    /\ Parsed("parse_vlan")
    /\ Has(params, "vlan_id")
    /\ Value("vlan_id") = 0
    /\ retval = RNone

----------------------------------------------------------------------------
(* C14 *)

BothPriorities == Present(params, "priority") /\ Present(params, "priority_force")
BuildingRule == op = "add_ipv4_rule_acl" /\ pc # "idle"
BuildFailed == pc = "done" /\ result # "ok" /\ sent = <<>>

\* the parsers of IpAcl the builder of the extended rule calls before
\* parse_priority
BeforePriority(p) ==
    <<parse_action(p), parse_vlan(p), parse_protocol(p),
      parse_source(p), parse_destination(p),
      parse_established(p), parse_dscp_mapping(p),
      parse_dscp_marking(p), parse_fragment(p), parse_precedence(p),
      parse_option(p), parse_suppress_rpf_drop(p)>>

\* C14 (as stated): for every bag in which priority and priority_force are
\* both truthy, in range or not, parse_priority and parse_priority_force
\* each fail with the conflicting-parameters error, and so does the build
\* of the rule when the bag names the ACL and the fields parsed before the
\* priority are valid; no rule line is rendered or sent
C14_PriorityConflict ==
    BothPriorities =>
        /\ (Parsed("parse_priority") \/ Parsed("parse_priority_force")) =>
               retval = RErr("ConflictingParameters")
        /\ BuildingRule => BuildFailed
        /\ (BuildingRule /\ Has(params, "acl_name")
              /\ FirstErr(BeforePriority(params)) = 0) =>
               result = "ConflictingParameters"

----------------------------------------------------------------------------
(* C16 *)

BothLogMirror == Present(params, "log") /\ Present(params, "mirror")

\* C16 (as stated): for every bag in which log and mirror are both truthy,
\* parse_log and parse_mirror fail with the conflicting-parameters error
\* and so does the build of the rule, whose earlier fields are valid; no
\* 'log' and no 'mirror' fragment is rendered
C16_LogMirrorConflict ==
    BothLogMirror =>
        /\ (Parsed("parse_log") \/ Parsed("parse_mirror")) =>
               retval = RErr("ConflictingParameters")
        /\ (BuildingRule /\ Has(params, "acl_name")
              /\ FirstErr(BeforePriority(params)) = 0
              /\ ~Present(params, "priority")
              /\ ~Present(params, "priority_force")) =>
               /\ BuildFailed
               /\ result = "ConflictingParameters"

----------------------------------------------------------------------------
(* C17 *)

\* C17 (as stated): when mirror is truthy and log is absent or empty,
\* parse_mirror returns the fragment 'mirror' if action is absent or equals
\* 'permit', and fails if action is present with another value
C17_MirrorNeedsPermit ==
    (Parsed("parse_mirror") /\ Present(params, "mirror")
       /\ ~Present(params, "log")) =>
        IF ~Has(params, "action") \/ Value("action") = s_permit
        THEN retval = RStr(<<"m","i","r","r","o","r">>)
        ELSE retval.k = "err"

----------------------------------------------------------------------------
(* C18 *)

\* the value of the key holds a tcp/udp operator as one of its tokens
HasOperator(k) ==
    /\ Present(params, k)
    /\ \E i \in 1..Len(SplitWS(Value(k))) :
          \E j \in 1..Len(TcpUdpOps) : SplitWS(Value(k))[i] = TcpUdpOps[j]
TcpOrUdp ==
    Present(params, "protocol_type") /\ Value("protocol_type") \in {s_tcp, s_udp}

\* C18 (as stated): with option set and protocol_type tcp or udp,
\* parse_option fails with the conflicting-parameters error whenever the
\* source or the destination holds a tcp/udp operator, also when the
\* operator is in the destination alone
C18_OptionExcludesOperator ==
    (Parsed("parse_option") /\ Present(params, "option") /\ TcpOrUdp
       /\ (HasOperator("source") \/ HasOperator("destination"))) =>
        retval = RErr("ConflictingParameters")

----------------------------------------------------------------------------
(* C19 *)

AddressKey == IF op = "parse_source" THEN "source" ELSE "destination"
ParsedAddress ==
    /\ (Parsed("parse_source") \/ Parsed("parse_destination"))
    /\ Present(params, AddressKey)
    /\ Present(params, "protocol_type")
\* 'any' or 'host <name>' with nothing after it
PlainAnyOrHost ==
    LET toks == SplitWS(Value(AddressKey))
    IN  \/ toks = <<s_any>>
        \/ Len(toks) = 2 /\ toks[1] = s_host

\* C19 (as stated): an address value with a port operator fails under every
\* protocol_type other than tcp and udp, and 'any' and 'host <name>'
\* without an operator are accepted under any protocol_type, whatever the
\* host name
C19_OperatorOnlyForTcpUdp ==
    ParsedAddress =>
        /\ (HasOperator(AddressKey) /\ ~TcpOrUdp) => retval.k = "err"
        /\ PlainAnyOrHost => retval.k = "str"

----------------------------------------------------------------------------
(* C21 *)

\* C21 (as stated): every command of every batch passed to the executor is
\* whitespace-normalized: no leading or trailing blank and no two blanks in
\* a row (the enter-context command of the extended IPv4 ACL A1 is exactly
\* 'ip access-list extended A1')
C21_CommandsNormalized ==
    \A i \in 1..Len(sent) :
        \A k \in 1..Len(sent[i].cmds) : SingleSpaced(sent[i].cmds[k])


\* the field each parser of an optional field reads
OptionalField ==
    [parse_vlan |-> "vlan_id", parse_log |-> "log", parse_mirror |-> "mirror",
     parse_protocol |-> "protocol_type", parse_dscp_mapping |-> "dscp",
     parse_dscp_marking |-> "dscp_marking", parse_fragment |-> "fragment",
     parse_precedence |-> "precedence", parse_option |-> "option",
     parse_established |-> "established",
     parse_suppress_rpf_drop |-> "suppress_rpf_drop",
     parse_priority |-> "priority", parse_priority_force |-> "priority_force",
     parse_priority_mapping |-> "priority_mapping", parse_tos |-> "tos",
     parse_drop_precedence |-> "drop_precedence",
     parse_drop_precedence_force |-> "drop_precedence_force",
     parse_destination |-> "destination"]

\* C22 (as stated): a parser of an optional field that is handed a bag which
\* lacks the field, or holds a falsy or empty value for it, returns None and
\* raises nothing; parse_action on a bag without a truthy action fails with
\* the missing-parameter error.
C22_AbsentFieldReturnsNone ==
    /\ \A f \in DOMAIN OptionalField :
           Parsed(f) /\ ~Present(params, OptionalField[f])
               => retval = RNone /\ result = "ok"
    /\ Parsed("parse_action") /\ ~Present(params, "action")
           => retval = RErr("MissingParameter")

----------------------------------------------------------------------------
(* C23 *)

\* the parsers of an integer in 0..hi: field, keyword, upper end, and the
\* field that excludes it
IntRanges ==
    [parse_priority |->
         [key |-> "priority", kw |-> <<"p","r","i","o","r","i","t","y">>, hi |-> 7,
          other |-> "priority_force"],
     parse_priority_force |->
         [key |-> "priority_force", kw |-> <<"p","r","i","o","r","i","t","y","-","f","o","r","c","e">>, hi |-> 7,
          other |-> "priority"],
     parse_priority_mapping |->
         [key |-> "priority_mapping", kw |-> <<"p","r","i","o","r","i","t","y","-","m","a","p","p","i","n","g">>, hi |-> 7,
          other |-> ""],
     parse_tos |-> [key |-> "tos", kw |-> <<"t","o","s">>, hi |-> 15, other |-> ""]]

\* the parsers of a digit string in 0..hi
DigitRanges ==
    [parse_dscp_mapping |->
         [key |-> "dscp", kw |-> <<"d","s","c","p","-","m","a","p","p","i","n","g">>, hi |-> 63, other |-> ""],
     parse_dscp_marking |->
         [key |-> "dscp_marking", kw |-> <<"d","s","c","p","-","m","a","r","k","i","n","g">>, hi |-> 63,
          other |-> ""],
     parse_drop_precedence |->
         [key |-> "drop_precedence", kw |-> <<"d","r","o","p","-","p","r","e","c","e","d","e","n","c","e">>, hi |-> 3,
          other |-> "drop_precedence_force"],
     parse_drop_precedence_force |->
         [key |-> "drop_precedence_force", kw |-> <<"d","r","o","p","-","p","r","e","c","e","d","e","n","c","e","-","f","o","r","c","e">>,
          hi |-> 3, other |-> "drop_precedence"]]

\* the parser f was applied to a bag that holds its field and not the field
\* that excludes it
Supplied(f, r) ==
    Parsed(f) /\ Has(params, r.key) /\ ~Present(params, r.other)

\* C23 (as stated): priority, priority_force and priority_mapping return
\* '<keyword> N' for every integer N in 0..7, 0 included, tos for every N in
\* 0..15, 0 included; dscp and dscp_marking for every digit string in 0..63,
\* drop_precedence and drop_precedence_force for every digit string in 0..3;
\* every other supplied value fails with the invalid-value error.
C23_ClosedRanges ==
    /\ \A f \in DOMAIN IntRanges :
           LET r == IntRanges[f]
           IN  Supplied(f, r) =>
                   IF Value(r.key) >= 0 /\ Value(r.key) <= r.hi
                   THEN retval = RStr(r.kw \o SP \o IntToStr(Value(r.key)))
                   ELSE retval = RErr("InvalidValue")
    /\ \A f \in DOMAIN DigitRanges :
           LET r == DigitRanges[f]
           IN  Supplied(f, r) /\ Value(r.key) # <<>> =>
                   IF IsDigit(Value(r.key)) /\ StrToInt(Value(r.key)) <= r.hi
                   THEN retval = RStr(r.kw \o SP \o Value(r.key))
                   ELSE retval = RErr("InvalidValue")

----------------------------------------------------------------------------
(* C24 *)

BothDropPrecedences ==
    Present(params, "drop_precedence") /\ Present(params, "drop_precedence_force")

\* C24: on no bag do both parsers of a mutually exclusive pair (priority /
\* priority-force, drop-precedence / drop-precedence-force) return a
\* fragment; when both fields of a pair are truthy in the bag each parser of
\* the pair fails with the conflicting-parameters error, and the builder of
\* the extended IPv4 rule fails: it returns no fragments and nothing is
\* rendered or sent.
C24_ExclusivePairs ==
    /\ ~(parse_priority(params).k = "str"
           /\ parse_priority_force(params).k = "str")
    /\ ~(parse_drop_precedence(params).k = "str"
           /\ parse_drop_precedence_force(params).k = "str")
    /\ BothDropPrecedences /\ (Parsed("parse_drop_precedence")
                               \/ Parsed("parse_drop_precedence_force"))
           => retval = RErr("ConflictingParameters")
    /\ (BothPriorities \/ BothDropPrecedences) /\ BuildingRule =>
           /\ BuildFailed
           /\ ~parse_params_for_add_ipv4_extended(params).ok

\* parse_drop_precedence refused a bag that holds both fields of its pair
C24_Witness ==
    /\ Parsed("parse_drop_precedence")
    /\ BothDropPrecedences
    /\ ~BothPriorities
    /\ retval = RErr("ConflictingParameters")

----------------------------------------------------------------------------
(* C25 *)

\* the keywords the docstring and the error message of parse_precedence list
DocumentedPrecedences ==
    {<<"c","r","i","t","i","c","a","l">>, <<"f","l","a","s","h">>, <<"f","l","a","s","h","-","o","v","e","r","r","i","d","e">>, <<"i","m","m","e","d","i","a","t","e">>,
     <<"i","n","t","e","r","n","e","t">>, <<"n","e","t","w","o","r","k">>, <<"p","r","i","o","r","i","t","y">>, <<"r","o","u","t","i","n","e">>}

\* C25 (as stated): parse_precedence returns 'precedence <value>' for every
\* documented keyword and every digit string in 0..7, and fails with the
\* invalid-value error for every other non-empty value.
C25_PrecedenceKeywords ==
    (Parsed("parse_precedence") /\ Present(params, "precedence")) =>
        IF \/ Value("precedence") \in DocumentedPrecedences
           \/ IsDigit(Value("precedence"))
                /\ StrToInt(Value("precedence")) <= 7
        THEN retval = RStr(<<"p","r","e","c","e","d","e","n","c","e"," ">> \o Value("precedence"))
        ELSE retval = RErr("InvalidValue")

----------------------------------------------------------------------------
(* C26 *)

\* four decimal numbers in 0..255 separated by dots
IsDottedQuad(s) ==
    LET parts == SplitOn(s, ".")
    IN  /\ Len(parts) = 4
        /\ \A i \in 1..4 : IsDigit(parts[i]) /\ StrToInt(parts[i]) <= 255

AddressTokens == SplitWS(Value(AddressKey))

\* the value is '<addr>/<prefixlen>' with nothing after it
PrefixForm ==
    /\ Len(AddressTokens) = 1
    /\ Len(SplitOn(AddressTokens[1], "/")) = 2
    /\ Slice0(AddressTokens[1], 3) # s_any
    /\ Slice0(AddressTokens[1], 4) # s_host

\* the value is '<addr> <mask>' with nothing after it
MaskForm ==
    /\ Len(AddressTokens) = 2
    /\ \A i \in 1..2 : ~Contains(AddressTokens[i], <<"/">>)
    /\ Slice0(AddressTokens[1], 3) # s_any
    /\ Slice0(AddressTokens[1], 4) # s_host
    /\ ~HasOperator(AddressKey)

\* C26 (as stated): '<addr>/<prefixlen>' is accepted only when <addr> is a
\* dotted-quad IPv4 address and <prefixlen> a decimal number in 0..32, and
\* fails with the invalid-address error otherwise; '<addr> <mask>' is
\* accepted only when both tokens are dotted-quad IPv4 addresses.
C26_StrictAddresses ==
    ParsedAddress =>
        /\ PrefixForm =>
               LET parts == SplitOn(AddressTokens[1], "/")
               IN  IF /\ IsDottedQuad(parts[1])
                      /\ IsDigit(parts[2])
                      /\ StrToInt(parts[2]) <= 32
                   THEN retval.k = "str"
                   ELSE retval = RErr("InvalidAddress")
        /\ MaskForm =>
               IF IsDottedQuad(AddressTokens[1]) /\ IsDottedQuad(AddressTokens[2])
               THEN retval.k = "str"
               ELSE retval = RErr("InvalidAddress")

----------------------------------------------------------------------------
(* C27 *)

\* the outcome of every field parser IpAcl defines, in the order in which
\* the extended builder calls them
InBuilderOrder(p) ==
    BeforePriority(p) \o
    <<parse_priority(p), parse_priority_force(p), parse_priority_mapping(p),
      parse_tos(p), parse_drop_precedence(p), parse_drop_precedence_force(p),
      parse_log(p), parse_mirror(p)>>

Failing(p) == {i \in 1..Len(InBuilderOrder(p)) : InBuilderOrder(p)[i].k = "err"}

\* C27 (as stated): the builder of the extended IPv4 rule fails fast: on a
\* bag that names the ACL, when some field parser fails the call ends with
\* the error of the first failing parser in builder order, unchanged,
\* whatever later parsers would raise, and nothing is rendered or sent;
\* when no field parser fails the rule is built and a batch is sent.
C27_FailFast ==
    (BuildingRule /\ pc = "done" /\ Has(params, "acl_name")) =>
        IF Failing(params) = {}
        THEN result = "ok" /\ sent # <<>>
        ELSE /\ BuildFailed
             /\ \E i \in Failing(params) :
                    /\ \A j \in Failing(params) : i <= j
                    /\ result = InBuilderOrder(params)[i].e

----------------------------------------------------------------------------
(* C28 *)

\* C28 (as stated): the identity get_acl_address_and_acl_type returns is
\* that of the ACL whose name is exactly the name asked for, also when the
\* listings hold another ACL whose name contains it, and a name that occurs
\* only inside other names is not found. delete_acl shows the identity
\* returned in the command it sends.
C28_IdentityOfExactName ==
    (op = "delete_acl" /\ IdentityAnswered /\ Len(replies) = 2
       /\ Name # <<>>) =>
        IF Exact = {}
        THEN pc = "done" /\ result = "AclNotFound" /\ SetCalls = {}
        ELSE /\ SetCalls = {3}
             /\ \E i \in Exact : sent[3].cmds = <<DeleteCommandOf(Listing[i])>>

----------------------------------------------------------------------------
(* C29 *)

\* the bag holds only parameters a standard rule supports: a name, permit or
\* deny from source any, and possibly seq_id and log
StandardBag ==
    /\ DOMAIN params \subseteq {"acl_name", "seq_id", "action", "source", "log"}
    /\ Name # <<>>
    /\ Has(params, "action") /\ Value("action") \in {s_permit, s_deny}
    /\ Has(params, "source") /\ Value("source") = s_any

\* C29 (as stated): on an ACL the device lists as IPv4 standard,
\* add_ipv4_rule_acl with only the parameters of a standard rule (no
\* protocol_type) builds the rule and submits one 'cli-set' batch of two
\* commands, the first entering 'ip access-list standard <name>'.
C29_StandardRuleBuilt ==
    (op = "add_ipv4_rule_acl" /\ IdentityAnswered /\ Len(replies) = 2
       /\ StandardBag /\ Matching # {}
       /\ FirstMatch = AclEntry(Name, s_ip, s_standard)) =>
        /\ SetCalls = {3}
        /\ Len(sent[3].cmds) = 2
        /\ Normalize(sent[3].cmds[1]) = <<"i","p"," ","a","c","c","e","s","s","-","l","i","s","t"," ","s","t","a","n","d","a","r","d"," ">> \o Name

----------------------------------------------------------------------------
(* C30 *)

RuleFamily == IF op = "add_ipv4_rule_acl" THEN s_ip ELSE s_ipv6

\* the enter-context command add_ipv4_rule_acl / add_ipv6_rule_acl builds
\* for the listing entry e, as the code concatenates it
EnterContextOf(e) ==
    IF e.protocol = s_ip
    THEN <<"i","p"," ","a","c","c","e","s","s","-","l","i","s","t"," ">> \o SP \o e.type \o SP \o Name
    ELSE <<"i","p","v","6"," ","a","c","c","e","s","s","-","l","i","s","t"," ">> \o SP \o Name

\* C30: add_ipv4_rule_acl and add_ipv6_rule_acl send a 'cli-set' batch only
\* as their third call, after both listing queries returned, and only when
\* the listing line that resolved the name is of the operation's family
\* (ip, respectively ipv6); the enter-context command carries the type of
\* that line and not one the caller passed; when the name is not found or
\* resolves to another protocol the call fails and no 'cli-set' batch was
\* sent.
C30_OwnFamilyOnly ==
    op \in {"add_ipv4_rule_acl", "add_ipv6_rule_acl"} =>
        /\ \A j \in SetCalls :
              /\ j = 3
              /\ IdentityAnswered
              /\ Matching # {}
              /\ FirstMatch.protocol = RuleFamily
              /\ sent[j].cmds[1] = EnterContextOf(FirstMatch)
        /\ (pc = "done" /\ IdentityAnswered
              /\ (Matching = {} \/ FirstMatch.protocol # RuleFamily)) =>
               (result \in {"AclNotFound", "UnsupportedAddressType"}
                  /\ SetCalls = {})

\* add_ipv4_rule_acl on a name the device lists as an IPv6 ACL: refused
\* after the lookup, with no batch sent
C30_Witness ==
    /\ op = "add_ipv4_rule_acl"
    /\ IdentityAnswered
    /\ Matching # {}
    /\ FirstMatch.protocol = s_ipv6
    /\ SetCalls = {}
    /\ Len(sent) = 2
    /\ pc = "done"
    /\ result = "UnsupportedAddressType"
====
